---- MODULE Spec2Model ----
(***************************************************************************)
(* Two modumb endpoints, each a Session over a ReliableTransport over a    *)
(* Framer, joined by one acoustic channel per direction.                   *)
(*                                                                         *)
(* An endpoint is single-threaded: it runs one call at a time, and a call  *)
(* is cut into steps at the points where the code blocks for a frame       *)
(* (Framer.wait_for_frame / Framer.receive_frame).  Everything the code    *)
(* does between two such points, transmissions included, is one step.      *)
(*                                                                         *)
(* Fields handed, delivered, sent, ntx, ncalls, arg, mark, at, ret and the *)
(* fid tag of a frame are history: the code never reads them.              *)
(***************************************************************************)
EXTENDS Integers, Sequences, FiniteSets, TLC

\* ---------------------------------------------------------------- sizes

\* ReliableTransport(retries=...): retransmissions allowed per fragment.
retries == 1
\* SessionConfig.handshake_retries: SYN transmissions per connect().
handshake_retries == 2
\* ReliableTransport(fragment_size=...): payload bytes per DATA frame.
fragment_size == 2
\* Longest byte string handed to send().
MaxDataLen == 3
\* Calls the two endpoints make in a run, together.
MaxCalls == 3
\* Sequence numbers are 16 bit: (seq + 1) & 0xFFFF.
SeqMod == 65536

Bytes == {65, 66}

EP == {"A", "B"}

Peer(e) == IF e = "A" THEN "B" ELSE "A"

RECURSIVE SeqsUpTo(_)
SeqsUpTo(n) ==
  IF n = 0 THEN {<<>>}
  ELSE LET S == SeqsUpTo(n - 1)
       IN S \cup {Append(s, b) : s \in {x \in S : Len(x) = n - 1}, b \in Bytes}

DataSet == SeqsUpTo(MaxDataLen)

\* The byte strings sent where frames may be lost: one that fits a frame and
\* one that does not.
Messages == {<<66>>, <<65, 66, 65>>}

\* --------------------------------------------------------------- frames

FrameType == {"DATA", "ACK", "NAK", "SYN", "SYN_ACK", "FIN", "RST"}

\* fid tags a DATA frame with the index, in its sender's handed log, of the
\* fragment it carries (0 on every other frame).
Frame(t, s, p, i) == [frame_type |-> t, sequence |-> s, payload |-> p, fid |-> i]

\* "No frame": the None of wait_for_frame / receive_frame.
NoFrame == Frame("None", 0, <<>>, 0)

create_data(sequence, data, i) == Frame("DATA", sequence, data, i)
create_ack_mutant(sequence) == Frame("ACK", 0, <<>>, 0)
create_ack(sequence) == Frame("ACK", sequence, <<>>, 0)
create_nak(sequence) == Frame("NAK", sequence, <<>>, 0)
create_syn == Frame("SYN", 0, <<>>, 0)
create_syn_ack == Frame("SYN_ACK", 0, <<>>, 0)
create_fin(sequence) == Frame("FIN", sequence, <<>>, 0)
create_rst == Frame("RST", 0, <<>>, 0)

\* ---------------------------------------------------------------- state

VARIABLES
  ep,    \* ep[e]: the Session, ReliableTransport and Framer of endpoint e
  chan   \* chan[e]: frames on the air towards e, oldest first

vars == <<ep, chan>>

TransportStats ==
  [frames_sent |-> 0, frames_received |-> 0, retransmissions |-> 0,
   timeouts |-> 0, ack_received |-> 0, nak_received |-> 0]

NoRet == [op |-> "none", via |-> "none", ok |-> FALSE, data |-> <<>>]

NewEndpoint ==
  [state |-> "CLOSED",            \* Session.state
   tx_seq |-> 0, rx_seq |-> 0,    \* ReliableTransport._tx_seq, ._rx_seq
   stats |-> TransportStats,      \* ReliableTransport.stats
   rx_queue |-> <<>>,             \* Framer._rx_queue
   pc |-> "idle",                 \* where the running call blocks
   op |-> "none", via |-> "none", \* the running call, and its entry point
   polled |-> TRUE,               \* receive(): first receive_frame made
   fragments |-> <<>>,            \* send(): fragments not yet started
   frame |-> NoFrame,             \* _send_fragment / close: frame awaited for
   attempt |-> 0,                 \* loop counter of _send_fragment / connect
   received_data |-> <<>>,        \* receive_all(): bytes so far
   ret |-> NoRet,                 \* what the last call returned
   taken |-> 0,                   \* history: frames the call's receive loop took
   lost |-> 0,                    \* history: ACKs LoseFirstAck took off the air
   handed |-> <<>>,               \* payloads handed to _send_fragment
   delivered |-> <<>>,            \* payloads receive() returned, with fid
                                  \* and sequence number of their frames
   sent |-> <<>>,                 \* frames transmitted by the running call
   ntx |-> 0,                     \* transmissions of the current fragment
   ncalls |-> 0,                  \* calls made
   arg |-> <<>>,                  \* send(): the data of the running call
   mark |-> 0,                    \* Len(delivered) when the call was made
   at |-> [state |-> "CLOSED", tx_seq |-> 0, rx_seq |-> 0,
           stats |-> TransportStats]]  \* the fields when the call was made

Init ==
  /\ ep = [e \in EP |-> NewEndpoint]
  /\ chan = [e \in EP |-> <<>>]

\* A handler's result: the endpoint afterwards and the frames it transmitted.
Out(s, tx) == [ep |-> s, tx |-> tx]

\* The running call returns.
Return(s, ok, data) ==
  [s EXCEPT !.pc = "idle",
            !.ret = [op |-> s.op, via |-> s.via, ok |-> ok, data |-> data],
            !.fragments = <<>>, !.frame = NoFrame, !.attempt = 0,
            !.received_data = <<>>, !.polled = TRUE]

\* A call is made.
Begin(s, op, via) ==
  [s EXCEPT !.op = op, !.via = via, !.ncalls = @ + 1, !.sent = <<>>,
            !.taken = 0,
            !.ntx = 0, !.ret = NoRet, !.arg = <<>>, !.mark = Len(s.delivered),
            !.at = [state |-> s.state, tx_seq |-> s.tx_seq, rx_seq |-> s.rx_seq,
                    stats |-> s.stats]]

\* ------------------------------------------------- Framer (framer.py)

\* Framer._frame_matches; "Any" / AnySeq stand for expected_* = None.
AnySeq == 0 - 1

frame_matches(frame, expected_type, expected_seq) ==
  /\ expected_type = "Any" \/ frame.frame_type = expected_type
  /\ expected_seq = AnySeq \/ frame.sequence = expected_seq

HasMatch(q, t, n) == \E i \in 1..Len(q) : frame_matches(q[i], t, n)

FirstMatch(q, t, n) ==
  CHOOSE i \in 1..Len(q) :
    /\ frame_matches(q[i], t, n)
    /\ \A j \in 1..(i - 1) : ~frame_matches(q[j], t, n)

\* wait_for_frame's scan of the queue on entry, when it holds a match: the
\* frames before the first match are taken out and put back, behind the rest.
scan_queue(q, t, n) ==
  LET i == FirstMatch(q, t, n)
  IN [frame |-> q[i], queue |-> SubSeq(q, i + 1, Len(q)) \o SubSeq(q, 1, i - 1)]

\* wait_for_frame's loop, a frame that does not match: it is queued.
requeue(q, frame) == Append(q, frame)

\* ------------------------------------ ReliableTransport (reliable.py)

next_seq_mutant(s) == s + 1

\* _next_seq: the sequence number after s.
next_seq(s) == (s + 1) % SeqMod

Min(a, b) == IF a < b THEN a ELSE b

\* _fragment
fragment_mutant(data) == <<SubSeq(data, 1, Min(Len(data), fragment_size))>>

fragment(data) ==
  IF Len(data) <= fragment_size THEN <<data>>
  ELSE LET n == (Len(data) + fragment_size - 1) \div fragment_size
       IN [k \in 1..n |->
             SubSeq(data, (k - 1) * fragment_size + 1,
                    Min(k * fragment_size, Len(data)))]

reset_transport_mutant(s) == [s EXCEPT !.tx_seq = 0, !.rx_seq = 0]

\* reset
reset_transport(s) ==
  [s EXCEPT !.tx_seq = 0, !.rx_seq = 0, !.stats = TransportStats]

attempt_allowed_mutant(a) == a < retries + 2

\* _send_fragment, the range of its loop: attempt a is made iff this holds.
attempt_allowed(a) == a < retries + 1

\* _send_fragment: is this ACK the one awaited?
ack_matches(response, seq) == response.sequence = seq

transmit_attempt_mutant(s) ==
  Out([s EXCEPT !.stats.frames_sent = @ + 1, !.ntx = @ + 1, !.pc = "send"],
      <<s.frame>>)

\* _send_fragment, one turn of the loop up to the wait.
transmit_attempt(s) ==
  Out([s EXCEPT !.stats.frames_sent = @ + 1,
                !.stats.retransmissions = IF s.attempt > 0 THEN @ + 1 ELSE @,
                !.ntx = @ + 1,
                !.pc = "send"],
      <<s.frame>>)

send_failed_mutant(s) == Out(Return(s, TRUE, <<>>), <<>>)

\* _send_fragment returns False, and so does send.
send_failed(s) == Out(Return(s, FALSE, <<>>), <<>>)

\* _send_fragment, the loop goes round.
next_attempt(s) ==
  IF attempt_allowed(s.attempt + 1)
  THEN transmit_attempt([s EXCEPT !.attempt = @ + 1])
  ELSE send_failed(s)

\* _send_fragment, from its call to the first wait.
send_fragment(s) ==
  LET seq == s.tx_seq
      data == Head(s.fragments)
  IN transmit_attempt(
       [s EXCEPT !.tx_seq = next_seq(@),
                 !.frame = create_data(seq, data, Len(s.handed) + 1),
                 !.fragments = Tail(@),
                 !.attempt = 0,
                 !.ntx = 0,
                 !.handed = Append(@, data)])

\* send, its loop over the fragments.
send_loop(s) ==
  IF s.fragments = <<>> THEN Out(Return(s, TRUE, <<>>), <<>>)
  ELSE send_fragment(s)

\* send
send(s, data) ==
  send_loop([s EXCEPT !.fragments = fragment(data), !.arg = data])

\* _send_fragment, after the wait.
send_response(s, response) ==
  CASE response = NoFrame ->
         next_attempt([s EXCEPT !.stats.timeouts = @ + 1])
    [] response.frame_type = "ACK" ->
         IF ack_matches(response, s.frame.sequence)
         THEN send_loop([s EXCEPT !.stats.ack_received = @ + 1])
         ELSE next_attempt(s)
    [] response.frame_type = "NAK" ->
         next_attempt([s EXCEPT !.stats.nak_received = @ + 1])
    [] response.frame_type = "RST" -> send_failed(s)
    [] OTHER -> next_attempt(s)

\* receive: the tests on a DATA frame's sequence number.
is_expected_mutant(sequence, rx) == sequence <= rx
is_expected(sequence, rx) == sequence = rx
is_duplicate_mutant(sequence, rx) == FALSE
is_duplicate_mutant_ne(sequence, rx) == sequence # rx
is_duplicate(sequence, rx) == sequence < rx

accept_seq_mutant(rx) == rx + 1

\* The rx_seq after a DATA frame was accepted.
accept_seq(rx) == (rx + 1) % SeqMod

\* receive is called (by receive_all too).
receive_enter(s) ==
  [s EXCEPT !.pc = "receive", !.polled = (s.rx_queue = <<>>)]

\* A return from receive that counts a frame as received.
receive_return_mutant(s, ok, data, tx) ==
  Out(Return([s EXCEPT !.stats.frames_received = @ + 1], ok, data), tx)

\* receive returns; inside receive_all the loop goes on or ends.
receive_return(s, ok, data, tx) ==
  IF s.op = "receive_all"
  THEN IF ok
       THEN Out(receive_enter([s EXCEPT !.received_data = @ \o data]), tx)
       ELSE Out(Return(s, TRUE, s.received_data), tx)
  ELSE Out(Return(s, ok, data), tx)

\* receive, one frame read (or the deadline passed: NoFrame).
receive_response(s, frame) ==
  LET s1 == [s EXCEPT !.stats.frames_received = @ + 1, !.polled = TRUE]
  IN CASE frame = NoFrame -> receive_return(s, FALSE, <<>>, <<>>)
       [] frame.frame_type = "DATA" ->
            IF is_expected(frame.sequence, s.rx_seq)
            THEN receive_return(
                   [s1 EXCEPT !.rx_seq = accept_seq(@),
                              !.delivered = Append(@, [fid |-> frame.fid,
                                                       payload |-> frame.payload,
                                                       sequence |-> frame.sequence])],
                   TRUE, frame.payload, <<create_ack(frame.sequence)>>)
            ELSE IF is_duplicate(frame.sequence, s.rx_seq)
            THEN Out(s1, <<create_ack(frame.sequence)>>)
            ELSE Out(s1, <<create_nak(s.rx_seq)>>)
       [] frame.frame_type = "FIN" ->
            receive_return(s1, FALSE, <<>>, <<create_ack(frame.sequence)>>)
       [] frame.frame_type = "RST" -> receive_return(s1, FALSE, <<>>, <<>>)
       [] OTHER -> Out(s1, <<>>)

\* close, up to the wait for the ACK of the FIN.
transport_close(s) ==
  LET seq == s.tx_seq
  IN Out([s EXCEPT !.tx_seq = next_seq(@), !.frame = create_fin(seq),
                   !.pc = "close"],
         <<create_fin(seq)>>)

\* --------------------------------------------- Session (session.py)

handshake_allowed_mutant(a) == a <= handshake_retries

\* connect, the range of its loop.
handshake_allowed(a) == a < handshake_retries

\* connect, one turn of the loop up to the wait for SYN_ACK.
connect_attempt(s) ==
  Out([s EXCEPT !.state = "SYN_SENT", !.pc = "connect"], <<create_syn>>)

connect_mutant(s) == connect_attempt([s EXCEPT !.attempt = 0])

\* connect
connect(s) ==
  IF s.state # "CLOSED" THEN Out(Return(s, FALSE, <<>>), <<>>)
  ELSE connect_attempt([s EXCEPT !.attempt = 0])

connect_response_mutant(s, response) ==
  Out(Return(reset_transport([s EXCEPT !.state = "ESTABLISHED"]), TRUE, <<>>),
      <<create_ack(0)>>)

\* connect, after the wait.
connect_response(s, response) ==
  IF response = NoFrame
  THEN IF handshake_allowed(s.attempt + 1)
       THEN connect_attempt([s EXCEPT !.attempt = @ + 1])
       ELSE Out(Return([s EXCEPT !.state = "CLOSED"], FALSE, <<>>), <<>>)
  ELSE Out(Return(reset_transport([s EXCEPT !.state = "ESTABLISHED"]),
                  TRUE, <<>>),
           <<create_ack(0)>>)

\* accept
accept(s) ==
  IF s.state # "CLOSED" THEN Out(Return(s, FALSE, <<>>), <<>>)
  ELSE Out([s EXCEPT !.pc = "accept_syn"], <<>>)

accept_syn_response_mutant(s, frame) ==
  IF frame = NoFrame
  THEN Out(Return(s, FALSE, <<>>), <<>>)
  ELSE Out([s EXCEPT !.state = "SYN_RECEIVED", !.pc = "accept_ack"], <<>>)

\* accept, after the wait for SYN.
accept_syn_response(s, frame) ==
  IF frame = NoFrame THEN Out(Return(s, FALSE, <<>>), <<>>)
  ELSE Out([s EXCEPT !.state = "SYN_RECEIVED", !.pc = "accept_ack"],
           <<create_syn_ack>>)

accept_ack_response_mutant(s, ack) ==
  IF ack = NoFrame THEN Out(Return(s, FALSE, <<>>), <<>>)
  ELSE Out(Return(reset_transport([s EXCEPT !.state = "ESTABLISHED"]),
                  TRUE, <<>>),
           <<>>)

\* accept, after the wait for ACK.
accept_ack_response(s, ack) ==
  IF ack = NoFrame
  THEN Out(Return([s EXCEPT !.state = "CLOSED"], FALSE, <<>>), <<>>)
  ELSE Out(Return(reset_transport([s EXCEPT !.state = "ESTABLISHED"]),
                  TRUE, <<>>),
           <<>>)

is_established_mutant(s) == s.state \in {"ESTABLISHED", "CLOSED"}

\* Session.send / Session.receive: the test that lets the call through.
is_established(s) == s.state = "ESTABLISHED"

\* Session.send
session_send(s, data) ==
  IF ~is_established(s) THEN Out(Return(s, FALSE, <<>>), <<>>)
  ELSE send(s, data)

\* Session.receive
session_receive(s) ==
  IF ~is_established(s) THEN Out(Return(s, FALSE, <<>>), <<>>)
  ELSE Out(receive_enter(s), <<>>)

session_close_mutant(s) ==
  IF s.state # "ESTABLISHED"
  THEN Out(Return([s EXCEPT !.state = "CLOSED"], TRUE, <<>>), <<>>)
  ELSE transport_close([s EXCEPT !.state = "TIME_WAIT"])

\* Session.close
session_close(s) ==
  IF s.state # "ESTABLISHED"
  THEN Out(Return([s EXCEPT !.state = "CLOSED"], TRUE, <<>>), <<>>)
  ELSE transport_close([s EXCEPT !.state = "FIN_WAIT"])

close_response_mutant(s, response) == Out(Return(s, TRUE, <<>>), <<>>)

\* ReliableTransport.close returns, the ACK seen or not; so does
\* Session.close, when the call came through it.
close_response(s, response) ==
  IF s.via = "session"
  THEN Out(Return([s EXCEPT !.state = "CLOSED"], TRUE, <<>>), <<>>)
  ELSE Out(Return(s, TRUE, <<>>), <<>>)

session_reset_mutant(s) ==
  Out(Return(reset_transport(s), TRUE, <<>>), <<create_rst>>)

\* Session.reset
session_reset(s) ==
  Out(Return(reset_transport([s EXCEPT !.state = "CLOSED"]), TRUE, <<>>),
      <<create_rst>>)

\* ----------------------------------------------------------- waiting

\* The calls that block in wait_for_frame; receive blocks in receive_frame.
WaitPcs == {"connect", "accept_syn", "accept_ack", "send", "close"}

\* What the wait_for_frame of s asks for.
expected_type(s) ==
  CASE s.pc = "connect" -> "SYN_ACK"
    [] s.pc = "accept_syn" -> "SYN"
    [] s.pc = "accept_ack" -> "ACK"
    [] s.pc = "close" -> "ACK"
    [] OTHER -> "Any"

expected_seq(s) == IF s.pc = "close" THEN s.frame.sequence ELSE AnySeq

Matches(s, frame) == frame_matches(frame, expected_type(s), expected_seq(s))

QueueMatch(s) == HasMatch(s.rx_queue, expected_type(s), expected_seq(s))

\* The blocked call goes on with what its wait returned.
OnResponse(s, frame) ==
  CASE s.pc = "connect" -> connect_response(s, frame)
    [] s.pc = "accept_syn" -> accept_syn_response(s, frame)
    [] s.pc = "accept_ack" -> accept_ack_response(s, frame)
    [] s.pc = "send" -> send_response(s, frame)
    [] s.pc = "close" -> close_response(s, frame)
    [] s.pc = "receive" -> receive_response(s, frame)

\* Endpoint e becomes r.ep, its transmissions r.tx go on the air to the peer,
\* and c is what is left on the air towards e.
Apply(e, r, c) ==
  /\ ep' = [ep EXCEPT ![e] = [r.ep EXCEPT !.sent = @ \o r.tx]]
  /\ chan' = [chan EXCEPT ![e] = c, ![Peer(e)] = @ \o r.tx]

TotalCalls == ep["A"].ncalls + ep["B"].ncalls

CanCall(e) == ep[e].pc = "idle"

\* Fewer than n calls were made so far.
Within(n) == TotalCalls < n

Call(e, op, via) == Begin(ep[e], op, via)

\* ----------------------------------------------------------- actions

Connect(e) ==
  CanCall(e) /\ Apply(e, connect(Call(e, "connect", "session")), chan[e])

Accept(e) ==
  CanCall(e) /\ Apply(e, accept(Call(e, "accept", "session")), chan[e])

SessionSend(e, data) ==
  CanCall(e) /\ Apply(e, session_send(Call(e, "send", "session"), data), chan[e])

SessionReceive(e) ==
  CanCall(e) /\ Apply(e, session_receive(Call(e, "receive", "session")), chan[e])

SessionClose(e) ==
  CanCall(e) /\ Apply(e, session_close(Call(e, "close", "session")), chan[e])

SessionReset(e) ==
  CanCall(e) /\ Apply(e, session_reset(Call(e, "reset", "session")), chan[e])

TransportSend(e, data) ==
  CanCall(e) /\ Apply(e, send(Call(e, "send", "transport"), data), chan[e])

TransportReceive(e) ==
  CanCall(e)
  /\ Apply(e, Out(receive_enter(Call(e, "receive", "transport")), <<>>), chan[e])

TransportReceiveAll(e) ==
  CanCall(e)
  /\ Apply(e, Out(receive_enter(Call(e, "receive_all", "transport")), <<>>), chan[e])

TransportClose(e) ==
  CanCall(e) /\ Apply(e, transport_close(Call(e, "close", "transport")), chan[e])

TransportReset(e) ==
  CanCall(e)
  /\ Apply(e, Out(Return(reset_transport(Call(e, "reset", "transport")), TRUE, <<>>),
                  <<>>), chan[e])

\* wait_for_frame finds a matching frame in the queue as it is entered.
ScanHit(e) ==
  LET s == ep[e]
      sc == scan_queue(s.rx_queue, expected_type(s), expected_seq(s))
  IN /\ s.pc \in WaitPcs
     /\ QueueMatch(s)
     /\ Apply(e, OnResponse([s EXCEPT !.rx_queue = sc.queue], sc.frame), chan[e])

\* wait_for_frame's loop: receive_frame hands back a queued frame, which
\* does not match and is queued again.
Spin(e) ==
  LET s == ep[e]
  IN /\ s.pc \in WaitPcs
     /\ s.rx_queue # <<>>
     /\ ~QueueMatch(s)
     /\ Apply(e, Out([s EXCEPT !.rx_queue = requeue(Tail(@), Head(@))], <<>>),
              chan[e])

\* wait_for_frame's loop: receive_frame reads a frame from the modem.
WaitReceive(e) ==
  LET s == ep[e]
      frame == Head(chan[e])
  IN /\ s.pc \in WaitPcs
     /\ s.rx_queue = <<>>
     /\ chan[e] # <<>>
     /\ IF Matches(s, frame)
        THEN Apply(e, OnResponse(s, frame), Tail(chan[e]))
        ELSE Apply(e, Out([s EXCEPT !.rx_queue = requeue(@, frame)], <<>>),
                   Tail(chan[e]))

\* receive's loop: receive_frame hands back a queued frame, or reads one.
Receive(e) ==
  LET s == ep[e]
  IN /\ s.pc = "receive"
     /\ IF s.rx_queue # <<>>
        THEN Apply(e, OnResponse([s EXCEPT !.rx_queue = Tail(@), !.taken = @ + 1],
                                 Head(s.rx_queue)),
                   chan[e])
        ELSE /\ chan[e] # <<>>
             /\ Apply(e, OnResponse([s EXCEPT !.taken = @ + 1], Head(chan[e])),
                      Tail(chan[e]))

\* The deadline of a blocked call may pass: not before wait_for_frame has
\* scanned the queue, nor before receive has called receive_frame once.
MayExpire(e) ==
  \/ ep[e].pc \in WaitPcs /\ ~QueueMatch(ep[e])
  \/ ep[e].pc = "receive" /\ ep[e].polled

\* The deadline of the blocked call passes.
Timeout(e) == MayExpire(e) /\ Apply(e, OnResponse(ep[e], NoFrame), chan[e])

\* A frame on the air is lost (noise, or the receiver's own transmission
\* clearing its input buffer).
Drop(e) ==
  /\ chan[e] # <<>>
  /\ chan' = [chan EXCEPT ![e] = Tail(@)]
  /\ UNCHANGED ep

Next ==
  \E e \in EP :
    \/ /\ Within(MaxCalls)
       /\ \/ Connect(e)
          \/ Accept(e)
          \/ \E data \in Messages : SessionSend(e, data)
          \/ SessionReceive(e)
          \/ SessionClose(e)
          \/ SessionReset(e)
          \/ \E data \in Messages : TransportSend(e, data)
          \/ TransportReceive(e)
          \/ TransportClose(e)
          \/ TransportReset(e)
    \/ ScanHit(e)
    \/ Spin(e)
    \/ WaitReceive(e)
    \/ Receive(e)
    \/ Timeout(e)
    \/ Drop(e)

\* Every call of both endpoints, frames may be lost, and a deadline may pass
\* at any time.
Spec == Init /\ [][Next]_vars

\* Only the ReliableTransport is used, by both endpoints.
NextTransport ==
  \E e \in EP :
    \/ /\ Within(MaxCalls + 1)
       /\ \/ \E data \in Messages : TransportSend(e, data)
          \/ TransportReceive(e)
          \/ TransportClose(e)
          \/ TransportReset(e)
    \/ ScanHit(e)
    \/ Spin(e)
    \/ WaitReceive(e)
    \/ Receive(e)
    \/ Timeout(e)
    \/ Drop(e)

SpecTransport == Init /\ [][NextTransport]_vars

\* One sending and one receiving ReliableTransport: A calls send, B calls
\* receive, and frames may be lost.
NextArq ==
  \/ /\ Within(MaxCalls + 1)
     /\ \/ \E data \in Messages : TransportSend("A", data)
        \/ TransportReceive("B")
  \/ WaitReceive("A")
  \/ Receive("B")
  \/ \E e \in EP : Timeout(e) \/ Drop(e)

SpecArq == Init /\ [][NextArq]_vars

\* A sends through its ReliableTransport; B receives, closes, or resets its
\* session, so that A's wait is answered by ACK, NAK, FIN or RST.
NextSend ==
  \/ /\ Within(MaxCalls)
     /\ \/ \E data \in Messages : TransportSend("A", data)
        \/ TransportReceive("B")
        \/ TransportClose("B")
        \/ SessionReset("B")
  \/ \E e \in EP : Spin(e) \/ WaitReceive(e) \/ Receive(e) \/ Timeout(e) \/ Drop(e)

SpecSend == Init /\ [][NextSend]_vars

\* A connects and B accepts, each after any use of its ReliableTransport.
NextHandshake ==
  \/ /\ Within(MaxCalls)
     /\ \/ Connect("A")
        \/ Accept("B")
        \/ \E e \in EP : \E data \in Messages : TransportSend(e, data)
  \/ \E e \in EP : ScanHit(e) \/ Spin(e) \/ WaitReceive(e) \/ Timeout(e) \/ Drop(e)

SpecHandshake == Init /\ [][NextHandshake]_vars

\* Only the Session is used, by both endpoints.
NextSession ==
  \E e \in EP :
    \/ /\ Within(MaxCalls + 1)
       /\ \/ Connect(e)
          \/ Accept(e)
          \/ \E data \in Messages : SessionSend(e, data)
          \/ SessionReceive(e)
          \/ SessionClose(e)
          \/ SessionReset(e)
    \/ ScanHit(e)
    \/ Spin(e)
    \/ WaitReceive(e)
    \/ Receive(e)
    \/ Timeout(e)
    \/ Drop(e)

SpecSession == Init /\ [][NextSession]_vars

\* ------------------------------------------------- lossless channel

\* Endpoint p has a frame to go on with.
HasInput(p) ==
  \/ /\ ep[p].pc \in WaitPcs
     /\ QueueMatch(ep[p]) \/ (ep[p].rx_queue = <<>> /\ chan[p] # <<>>)
  \/ /\ ep[p].pc = "receive"
     /\ ep[p].rx_queue # <<>> \/ chan[p] # <<>>

\* The deadlines are long against the time a frame takes: one passes only
\* when neither endpoint has a frame left to go on with.
QuietTimeout(e) == ~HasInput(e) /\ ~HasInput(Peer(e)) /\ Timeout(e)

\* The peer of e is blocked at pc, in call op.
Awaited(e, op, pc) == ep[Peer(e)].op = op /\ ep[Peer(e)].pc = pc

\* No frame is lost, and send is called while the peer is in receive_all.
NextLossless ==
  \E e \in EP :
    \/ /\ Within(MaxCalls)
       /\ \/ TransportReceiveAll(e)
          \/ \E data \in DataSet :
               Awaited(e, "receive_all", "receive") /\ TransportSend(e, data)
    \/ WaitReceive(e)
    \/ Receive(e)
    \/ QuietTimeout(e)

SpecLossless == Init /\ [][NextLossless]_vars

\* No frame is lost, connect is called while the peer is in accept, and close
\* while the peer is in receive.
NextLosslessSession ==
  \E e \in EP :
    \/ /\ Within(MaxCalls + 2)
       /\ \/ Accept(e)
          \/ Awaited(e, "accept", "accept_syn") /\ Connect(e)
          \/ SessionReceive(e)
          \/ Awaited(e, "receive", "receive") /\ SessionClose(e)
    \/ WaitReceive(e)
    \/ Receive(e)
    \/ QuietTimeout(e)

SpecLosslessSession == Init /\ [][NextLosslessSession]_vars

\* ------------------------------------------------------------ claims

\* The fids of the fragments of the last send call of endpoint s.
CallFids(s) ==
  (Len(s.handed) - Len(fragment(s.arg)) + 1)..Len(s.handed)

AcceptedFids(s) == {s.delivered[i].fid : i \in 1..Len(s.delivered)}

Returned(s, op) == s.pc = "idle" /\ s.ret.op = op

\* C1: with A only sending and B only receiving, both from sequence number 0,
\* over a channel that loses frames, what B's receive calls have returned is
\* at all times a prefix of the fragments A handed to _send_fragment: the
\* i-th payload returned is the i-th fragment handed, none twice, none
\* skipped, none out of order.
C1_DeliveredIsPrefixOfHanded ==
  LET d == ep["B"].delivered
      h == ep["A"].handed
  IN /\ Len(d) <= Len(h)
     /\ \A i \in 1..Len(d) : d[i].fid = i /\ d[i].payload = h[i]

\* C1 happens: B has returned two fragments, the second after A had to
\* retransmit and B had seen a frame it did not accept.
C1_Witness ==
  /\ Len(ep["B"].delivered) >= 2
  /\ ep["A"].stats.retransmissions > 0
  /\ ep["B"].stats.frames_received > Len(ep["B"].delivered)

\* The fragments of the last send call of endpoint s, and the payloads the
\* receive calls of s have returned.
CallPayloads(s) == {s.handed[k] : k \in CallFids(s)}
ReturnedPayloads(s) == {s.delivered[i].payload : i \in 1..Len(s.delivered)}

\* C2, as claimed, in what it says of the payloads alone: once send has
\* returned True, the peer's receive has returned the payload of every
\* fragment of that call.
C2_SendTrueMeansAccepted ==
  \A e \in EP :
    (Returned(ep[e], "send") /\ ep[e].ret.ok)
      => CallPayloads(ep[e]) \subseteq ReturnedPayloads(ep[Peer(e)])

RECURSIVE Flatten(_)
Flatten(ss) == IF ss = <<>> THEN <<>> ELSE Head(ss) \o Flatten(Tail(ss))

\* The number of fragments of a message of n bytes.
NumFragments(n) ==
  IF n <= fragment_size THEN 1 ELSE (n + fragment_size - 1) \div fragment_size

\* The last send call of endpoint s was the only one made while the peer p
\* ran its last receive_all call.
SendAgainstReceiveAll(s, p) ==
  /\ s.op = "send" /\ s.via = "transport"
  /\ p.op = "receive_all"
  /\ Len(s.handed) - NumFragments(Len(s.arg)) = p.mark

\* C3: over a lossless channel, send(data) called while the peer runs
\* receive_all returns True after transmitting exactly one DATA frame per
\* fragment (no retransmission), and the peer's receive_all returns exactly
\* data, for data of every length from 0 up.
C3_LosslessSendReceiveAll ==
  \A e \in EP :
    LET s == ep[e]
        p == ep[Peer(e)]
    IN SendAgainstReceiveAll(s, p) =>
         /\ s.pc = "idle" =>
              /\ s.ret.ok
              /\ Len(s.sent) = NumFragments(Len(s.arg))
              /\ \A k \in 1..Len(s.sent) : s.sent[k].frame_type = "DATA"
              /\ Flatten([k \in 1..Len(s.sent) |-> s.sent[k].payload]) = s.arg
         /\ (s.pc = "idle" /\ p.pc = "idle") => p.ret.data = s.arg

\* C3 happens: a three byte message went out in two fragments and the peer's
\* receive_all has returned it.
C3_Witness ==
  /\ SendAgainstReceiveAll(ep["A"], ep["B"])
  /\ ep["A"].pc = "idle" /\ ep["B"].pc = "idle"
  /\ ep["A"].ret.ok
  /\ Len(ep["A"].arg) = MaxDataLen
  /\ ep["B"].ret.data = ep["A"].arg
  /\ Len(ep["A"].sent) = 2

\* Endpoint s is in, or back from, a connect it called while CLOSED, and
\* its peer p in, or back from, an accept it called while CLOSED.
Handshake(s, p) ==
  /\ s.op = "connect" /\ s.at.state = "CLOSED"
  /\ p.op = "accept" /\ p.at.state = "CLOSED"

\* C4: over a lossless channel, with both sessions CLOSED, a connect called
\* while the peer is in accept returns True and so does the accept; both
\* sessions end ESTABLISHED; the connecting side has transmitted exactly one
\* SYN and one ACK and the accepting side exactly one SYN_ACK.
C4_LosslessHandshake ==
  \A e \in EP :
    LET s == ep[e]
        p == ep[Peer(e)]
    IN Handshake(s, p) =>
         /\ s.pc = "idle" =>
              /\ s.ret.ok
              /\ s.state = "ESTABLISHED"
              /\ s.sent = <<create_syn, create_ack(0)>>
         /\ p.pc = "idle" =>
              /\ p.ret.ok
              /\ p.state = "ESTABLISHED"
              /\ p.sent = <<create_syn_ack>>

\* C4 happens: connect and accept have both returned.
C4_Witness ==
  /\ Handshake(ep["A"], ep["B"])
  /\ ep["A"].pc = "idle" /\ ep["B"].pc = "idle"
  /\ ep["A"].ret.ok /\ ep["B"].ret.ok
  /\ ep["A"].state = "ESTABLISHED" /\ ep["B"].state = "ESTABLISHED"
  /\ chan = [e \in EP |-> <<>>]

\* In this step the call op of endpoint e returns True from a wait.
ReturnsTrue(e, op) ==
  /\ ep[e].op = op /\ ep[e].pc # "idle"
  /\ ep'[e].pc = "idle" /\ ep'[e].ret.ok

\* In this step endpoint e takes a frame of type t, from the channel or from
\* the framer's queue.
Consumes(e, t) ==
  \/ /\ ep[e].rx_queue = <<>> /\ chan[e] # <<>>
     /\ Head(chan[e]).frame_type = t
     /\ chan'[e] = Tail(chan[e])
  \/ /\ \E i \in 1..Len(ep[e].rx_queue) : ep[e].rx_queue[i].frame_type = t
     /\ Len(ep'[e].rx_queue) = Len(ep[e].rx_queue) - 1
     /\ chan'[e] = chan[e]

\* A sequence of one to handshake_retries SYN frames followed by ACK(0).
IsSynsThenAck(q) ==
  /\ Len(q) \in 2..(handshake_retries + 1)
  /\ \A k \in 1..(Len(q) - 1) : q[k] = create_syn
  /\ q[Len(q)] = create_ack(0)

\* C5, as claimed: once connect has returned True, the accept the peer made
\* for that handshake (it has answered a SYN with SYN_ACK) returns True and
\* leaves the peer ESTABLISHED, whatever frames were lost.
C5_ConnectTrueMeansPeerAccepted ==
  \A e \in EP :
    LET s == ep[e]
        p == ep[Peer(e)]
    IN (/\ Returned(s, "connect") /\ s.ret.ok
        /\ Returned(p, "accept") /\ p.sent = <<create_syn_ack>>)
         => p.ret.ok /\ p.state = "ESTABLISHED"

\* C5, amended: connect returns True only in a step that takes a SYN_ACK,
\* having transmitted one to handshake_retries SYN and then ACK(0); accept
\* returns True only in a step that takes an ACK, having transmitted exactly
\* one SYN_ACK; the endpoint that returns True is ESTABLISHED.  Nothing
\* follows for the peer.
C5_TrueOnlyOnOwnHandshake ==
  [][\A e \in EP :
       /\ ReturnsTrue(e, "connect") =>
            /\ Consumes(e, "SYN_ACK")
            /\ ep'[e].state = "ESTABLISHED"
            /\ IsSynsThenAck(ep'[e].sent)
       /\ ReturnsTrue(e, "accept") =>
            /\ Consumes(e, "ACK")
            /\ ep'[e].state = "ESTABLISHED"
            /\ ep'[e].sent = <<create_syn_ack>>]_vars

\* C5 happens: connect has returned True, and the accept that answered its
\* SYN has returned False and left the peer CLOSED.
C5_Witness ==
  /\ Returned(ep["A"], "connect") /\ ep["A"].ret.ok
  /\ ep["A"].state = "ESTABLISHED"
  /\ Returned(ep["B"], "accept") /\ ~ep["B"].ret.ok
  /\ ep["B"].sent = <<create_syn_ack>>
  /\ ep["B"].state = "CLOSED"

\* C6: whenever connect or accept has returned True, that endpoint's session
\* is ESTABLISHED and its transport has tx_seq = 0, rx_seq = 0 and zeroed
\* stats, whatever the counters were when the call was made.
C6_TrueLeavesEstablishedAndZeroed ==
  \A e \in EP :
    LET s == ep[e]
    IN ((Returned(s, "connect") \/ Returned(s, "accept")) /\ s.ret.ok) =>
         /\ s.state = "ESTABLISHED"
         /\ s.tx_seq = 0 /\ s.rx_seq = 0
         /\ s.stats = TransportStats

\* C6 happens: connect has returned True on an endpoint whose tx_seq and
\* stats were not zero when connect was called.
C6_Witness ==
  \E e \in EP :
    /\ Returned(ep[e], "connect") /\ ep[e].ret.ok
    /\ ep[e].at.tx_seq > 0
    /\ ep[e].at.stats.frames_sent > 0
    /\ ep[e].at.stats.timeouts > 0

\* In this step endpoint e makes the call op through entry point via.
Calls(e, op, via) ==
  /\ ep[e].pc = "idle"
  /\ ep'[e].ncalls = ep[e].ncalls + 1
  /\ ep'[e].op = op /\ ep'[e].via = via

\* C7: Session.send and Session.receive called in a state other than
\* ESTABLISHED fail at once and are not delegated to the transport: the call
\* returns failure in the step it is made, no frame is transmitted or
\* consumed, and state, tx_seq, rx_seq, stats and the framer's queue are
\* unchanged.
C7_NotEstablishedNotDelegated ==
  [][\A e \in EP :
       ( /\ Calls(e, "send", "session") \/ Calls(e, "receive", "session")
         /\ ep[e].state # "ESTABLISHED" ) =>
           /\ ep'[e].pc = "idle"
           /\ ~ep'[e].ret.ok /\ ep'[e].ret.data = <<>>
           /\ ep'[e].sent = <<>>
           /\ chan' = chan
           /\ ep'[e].state = ep[e].state
           /\ ep'[e].tx_seq = ep[e].tx_seq
           /\ ep'[e].rx_seq = ep[e].rx_seq
           /\ ep'[e].stats = ep[e].stats
           /\ ep'[e].rx_queue = ep[e].rx_queue]_vars

\* C7 happens: Session.send was called on a CLOSED session whose transport
\* had a tx_seq other than zero, and returned failure.
C7_Witness ==
  \E e \in EP :
    /\ Returned(ep[e], "send") /\ ep[e].via = "session"
    /\ ~ep[e].ret.ok
    /\ ep[e].at.state = "CLOSED"
    /\ ep[e].at.tx_seq > 0
    /\ ep[e].tx_seq = ep[e].at.tx_seq
    /\ ep[e].sent = <<>>

\* C8, as claimed: over a lossless channel, when an ESTABLISHED endpoint has
\* called close while its ESTABLISHED peer was in receive, and both calls
\* have returned, the peer has acknowledged the FIN and both sessions are
\* CLOSED.
C8_CloseLeavesBothClosed ==
  \A e \in EP :
    LET s == ep[e]
        p == ep[Peer(e)]
    IN (/\ Returned(s, "close") /\ s.via = "session"
        /\ s.at.state = "ESTABLISHED"
        /\ Returned(p, "receive") /\ p.via = "session"
        /\ p.at.state = "ESTABLISHED")
         => /\ p.sent = <<create_ack(s.at.tx_seq)>>
            /\ s.state = "CLOSED"
            /\ p.state = "CLOSED"

\* C9: Session.reset, called in any session state, transmits exactly one RST
\* frame and nothing else, consumes nothing, and returns at once with the
\* session CLOSED, tx_seq = 0, rx_seq = 0 and zeroed stats.
C9_ResetSendsOneRstAndZeroes ==
  [][\A e \in EP :
       Calls(e, "reset", "session") =>
         /\ ep'[e].pc = "idle"
         /\ ep'[e].sent = <<create_rst>>
         /\ chan'[Peer(e)] = Append(chan[Peer(e)], create_rst)
         /\ chan'[e] = chan[e]
         /\ ep'[e].state = "CLOSED"
         /\ ep'[e].tx_seq = 0 /\ ep'[e].rx_seq = 0
         /\ ep'[e].stats = TransportStats]_vars

\* C9 happens: reset has returned on a session that was ESTABLISHED, with a
\* transport whose tx_seq and stats were not zero.
C9_Witness ==
  \E e \in EP :
    /\ Returned(ep[e], "reset") /\ ep[e].via = "session"
    /\ ep[e].at.state = "ESTABLISHED"
    /\ ep[e].at.tx_seq > 0
    /\ ep[e].at.stats.frames_sent > 0
    /\ ep[e].state = "CLOSED" /\ ep[e].tx_seq = 0

\* The number of times the running call of s has transmitted fragment f.
Transmissions(s, f) ==
  Cardinality({k \in 1..Len(s.sent) :
                 s.sent[k].frame_type = "DATA" /\ s.sent[k].fid = f})

\* The frame endpoint e takes in this step, if it takes one while in send.
TakenInSend(e) ==
  IF ep[e].rx_queue # <<>> THEN Head(ep[e].rx_queue)
  ELSE IF chan[e] # <<>> /\ chan'[e] = Tail(chan[e]) THEN Head(chan[e])
  ELSE NoFrame

\* C10: a send call transmits the DATA frame of each fragment at most
\* retries + 1 times; it goes on to the next fragment, or returns True, only
\* in a step that takes an ACK carrying the sequence number of the fragment
\* in hand; so when no attempt is answered by such an ACK the call returns
\* False and transmits no later fragment.
C10_BoundedAttemptsThenFailure ==
  /\ [](\A e \in EP : \A f \in 1..Len(ep[e].handed) :
          ep[e].op = "send" => Transmissions(ep[e], f) <= retries + 1)
  /\ [][\A e \in EP :
          ( /\ ep[e].pc = "send"
            /\ \/ Len(ep'[e].handed) > Len(ep[e].handed)
               \/ ep'[e].pc = "idle" /\ ep'[e].ret.ok )
            => /\ TakenInSend(e).frame_type = "ACK"
               /\ TakenInSend(e).sequence = ep[e].frame.sequence]_vars
  /\ [][\A e \in EP :
          (ep[e].pc = "send" /\ ep'[e].pc = "idle" /\ ~ep'[e].ret.ok)
            => /\ ep'[e].sent = ep[e].sent
               /\ ep'[e].handed = ep[e].handed]_vars

\* C10 happens: a send call of a two-fragment message has returned False
\* after retries + 1 transmissions of its first fragment, and the second
\* fragment was never handed on.
C10_Witness ==
  \E e \in EP :
    /\ Returned(ep[e], "send") /\ ~ep[e].ret.ok
    /\ Len(ep[e].arg) > fragment_size
    /\ Len(ep[e].sent) = retries + 1
    /\ Transmissions(ep[e], Len(ep[e].handed)) = retries + 1
    /\ ep[e].stats.timeouts > 0

\* ------------------------------------------------- sequence number wrap

\* Sequence numbers at both ends of the 16-bit range.
EdgeSeqs == {0, 1, SeqMod - 2, SeqMod - 1}

\* Both transports after n fragments have gone from A to B without loss:
\* A's tx_seq and B's rx_seq stand at n.
InitWrap ==
  /\ \E n \in EdgeSeqs :
       ep = [e \in EP |-> IF e = "A" THEN [NewEndpoint EXCEPT !.tx_seq = n]
                                     ELSE [NewEndpoint EXCEPT !.rx_seq = n]]
  /\ chan = [e \in EP |-> <<>>]

\* A sends and B receives as in SpecArq, from sequence numbers that may be
\* about to wrap.
SpecWrap == InitWrap /\ [][NextArq]_vars

\* The frame endpoint e takes in this step, if it takes one while in receive.
TakenInReceive(e) ==
  IF ep[e].rx_queue # <<>> THEN Head(ep[e].rx_queue)
  ELSE IF chan[e] # <<>> /\ chan'[e] = Tail(chan[e]) THEN Head(chan[e])
  ELSE NoFrame

\* In this step the receive call of e takes a DATA frame of a fragment that
\* one of its receive calls has already returned.
TakesDuplicate(e) ==
  /\ ep[e].pc = "receive"
  /\ TakenInReceive(e).frame_type = "DATA"
  /\ TakenInReceive(e).fid \in AcceptedFids(ep[e])
  /\ ep'[e].stats.frames_received = ep[e].stats.frames_received + 1

\* C11, as claimed: at every rx_seq, 0 reached by wrapping from 0xFFFF
\* included, a retransmitted DATA frame of an already accepted fragment is a
\* duplicate: the receiver answers ACK of its sequence number (not NAK),
\* returns no payload for it and leaves rx_seq as it is.
C11_DuplicateIsReAcked ==
  [][\A e \in EP :
       TakesDuplicate(e) =>
         /\ chan'[Peer(e)] =
              Append(chan[Peer(e)], create_ack(TakenInReceive(e).sequence))
         /\ ep'[e].delivered = ep[e].delivered
         /\ ep'[e].rx_seq = ep[e].rx_seq]_vars

\* ------------------------------------------------- Frame (frame.py)

\* Bit k of x, and x with bit k flipped (x ^ (1 << k)).
Bit(x, k) == (x \div (2 ^ k)) % 2
FlipBit(x, k) == IF Bit(x, k) = 1 THEN x - 2 ^ k ELSE x + 2 ^ k

\* a ^ b: bit by bit from bit k up, tabulated for bytes, and on 16-bit values.
RECURSIVE XorFrom(_, _, _)
XorFrom(a, b, k) ==
  IF k = 8 THEN 0
  ELSE ((Bit(a, k) + Bit(b, k)) % 2) * (2 ^ k) + XorFrom(a, b, k + 1)

XorByte == [a \in 0..255 |-> [b \in 0..255 |-> XorFrom(a, b, 0)]]

Xor(a, b) ==
  XorByte[a \div 256][b \div 256] * 256 + XorByte[a % 256][b % 256]

\* crc16_func: CRC-16-CCITT, initial value 0xFFFF, polynomial 0x1021, one
\* table entry per value of the high byte.
RECURSIVE crc_shift(_, _)
crc_shift(crc, n) ==
  IF n = 0 THEN crc
  ELSE crc_shift(IF crc >= 32768
                 THEN Xor((crc * 2) % SeqMod, 4129)
                 ELSE (crc * 2) % SeqMod, n - 1)

crc_table == [i \in 0..255 |-> crc_shift(i * 256, 8)]

crc_byte(crc, byte) ==
  Xor((crc % 256) * 256, crc_table[XorByte[crc \div 256][byte]])

\* The loop over the bytes lo..hi of data (1-based), the range split in
\* halves.  crc is a 16-bit value (crc &= 0xFFFF); the test on it comes first
\* so that the value left by the first half is known before the second starts.
RECURSIVE crc_range(_, _, _, _)
crc_range(crc, data, lo, hi) ==
  IF crc >= SeqMod \/ lo > hi THEN crc % SeqMod
  ELSE IF lo = hi THEN crc_byte(crc, data[lo])
  ELSE crc_range(crc_range(crc, data, lo, (lo + hi) \div 2), data,
                 (lo + hi) \div 2 + 1, hi)

compute_crc(data) == crc_range(65535, data, 1, Len(data))

\* Frame constants.
PREAMBLE == [i \in 1..16 |-> 170]
SYNC == <<126, 126>>
MAX_PAYLOAD_SIZE == 64
ESCAPE_BYTE == 125
FLAG_BYTE == 126

\* FrameType as the byte on the wire, and the frame types a byte names.
TypeCode ==
  [t \in FrameType |->
     CASE t = "DATA" -> 1 [] t = "ACK" -> 2 [] t = "NAK" -> 3 [] t = "SYN" -> 16
       [] t = "SYN_ACK" -> 17 [] t = "FIN" -> 18 [] t = "RST" -> 19]

valid_types == {TypeCode[t] : t \in FrameType}

TypeOf(code) == CHOOSE t \in FrameType : TypeCode[t] = code

\* Big-endian packing.
Pack16_mutant(x) == <<x \div 256, x % 256>>

\* struct.pack('<H', x) and struct.unpack('<H', ...) at 0-based offset i.
Pack16(x) == <<x % 256, x \div 256>>
Unpack16(data, i) == data[i + 1] + 256 * data[i + 2]

\* Frame(frame_type, sequence, payload) with __post_init__: the frame, or the
\* ValueError it raises.
ValueError == Frame("ValueError", 0, <<>>, 0)

\* A constructor without the sequence check.
NewFrame_mutant(t, s, p) ==
  IF Len(p) > MAX_PAYLOAD_SIZE THEN ValueError ELSE Frame(t, s, p, 0)

NewFrame(t, s, p) ==
  IF Len(p) > MAX_PAYLOAD_SIZE THEN ValueError
  ELSE IF ~(0 <= s /\ s <= 65535) THEN ValueError
  ELSE Frame(t, s, p, 0)

\* _byte_stuff: what the loop appends for the bytes lo..hi of data (1-based),
\* the range split in halves.
RECURSIVE stuff_range(_, _, _)
stuff_range(data, lo, hi) ==
  IF lo > hi THEN <<>>
  ELSE IF lo = hi
       THEN (IF data[lo] = FLAG_BYTE \/ data[lo] = ESCAPE_BYTE
             THEN <<ESCAPE_BYTE, XorByte[data[lo]][32]>>
             ELSE <<data[lo]>>)
       ELSE stuff_range(data, lo, (lo + hi) \div 2)
              \o stuff_range(data, (lo + hi) \div 2 + 1, hi)

\* No stuffing at all.
byte_stuff_mutant(data) == data

byte_stuff(data) == stuff_range(data, 1, Len(data))

\* _byte_unstuff: the while loop run from 0-based index i until i reaches hi
\* or passes it: the index it stops at and what it appended.  The span is
\* split in halves, the second half starting where the first one stopped.
RECURSIVE unstuff_span(_, _, _)
unstuff_then(data, first, hi) ==
  [i |-> unstuff_span(data, first.i, hi).i,
   result |-> first.result \o unstuff_span(data, first.i, hi).result]

unstuff_span(data, i, hi) ==
  IF ~(i < hi) THEN [i |-> i, result |-> <<>>]
  ELSE IF hi - i = 1
       THEN (IF data[i + 1] = ESCAPE_BYTE /\ i + 1 < Len(data)
             THEN [i |-> i + 2, result |-> <<XorByte[data[i + 2]][32]>>]
             ELSE [i |-> i + 1, result |-> <<data[i + 1]>>])
       ELSE unstuff_then(data, unstuff_span(data, i, (i + hi) \div 2), hi)

byte_unstuff(data) == unstuff_span(data, 0, Len(data)).result

\* Frame.encode.
frame_content(f) ==
  <<TypeCode[f.frame_type]>> \o Pack16(f.sequence) \o Pack16(Len(f.payload))
    \o f.payload

encode(f) ==
  LET content == frame_content(f)
      content_with_crc == content \o Pack16(compute_crc(content))
  IN  PREAMBLE \o SYNC \o byte_stuff(content_with_crc)

\* bin(byte).count('1')
ones(byte) == Cardinality({k \in 0..7 : Bit(byte, k) = 1})

MinOf(S) == CHOOSE x \in S : \A y \in S : x <= y

\* _find_frame_start: the 0-based index after the sync, or -1.
find_frame_start(data) ==
  LET syncs == {p \in 0..(Len(data) - 2) :
                  data[p + 1] = SYNC[1] /\ data[p + 2] = SYNC[2]}
      preamble_score(i) ==
        Cardinality({j \in (IF i - 6 > 0 THEN i - 6 ELSE 0)..(i - 1) :
                       ones(data[j + 1]) >= 3 /\ ones(data[j + 1]) <= 5})
      starts == {i \in 4..(Len(data) - 8) :
                   /\ preamble_score(i) >= 3
                   /\ i + 2 < Len(data)
                   /\ data[i + 3] \in valid_types}
  IN  IF syncs # {} THEN MinOf(syncs) + Len(SYNC)
      ELSE IF starts # {} THEN MinOf(starts) + 2
      ELSE -1

\* data with bit bit_pos flipped: data[bit_pos // 8] ^= 1 << (bit_pos % 8).
flip(data, bit_pos) ==
  [data EXCEPT ![(bit_pos \div 8) + 1] = FlipBit(@, bit_pos % 8)]

\* crc == received_crc, for the content and the CRC field that follows it.
crc_matches(data, content_len) ==
  compute_crc(SubSeq(data, 1, content_len)) = Unpack16(data, content_len)

\* _try_correct_1bit: the data with the first bit flipped that makes the CRC
\* match, or <<>> for None.
try_correct_1bit(frame_data, content_len) ==
  LET total_bits == Len(frame_data) * 8
      hits == {bit_pos \in 0..(total_bits - 1) :
                 crc_matches(flip(frame_data, bit_pos), content_len)}
  IN  IF hits = {} THEN <<>> ELSE flip(frame_data, MinOf(hits))

\* _try_correct_2bit, inner loop: the bits j > i that make the CRC of data
\* (bit i already flipped) match with a valid type byte.
pair_hits(data, content_len, i, total_bits) ==
  {j \in (i + 1)..(total_bits - 1) :
     /\ crc_matches(flip(data, j), content_len)
     /\ flip(data, j)[1] \in valid_types}

\* _try_correct_2bit: the data with the first pair i < j flipped (in the order
\* of the two loops) that makes the CRC match, or <<>> for None.
try_correct_2bit(frame_data, content_len) ==
  LET total_bits == (content_len + 2) * 8
      firsts == {i \in 0..(total_bits - 1) :
                   pair_hits(flip(frame_data, i), content_len, i, total_bits) # {}}
      data == flip(frame_data, MinOf(firsts))
  IN  IF firsts = {} THEN <<>>
      ELSE flip(data, MinOf(pair_hits(data, content_len, MinOf(firsts), total_bits)))

\* A length check that lets every length through.
too_long_mutant(length) == FALSE

\* if length > MAX_PAYLOAD_SIZE
too_long(length) == length > MAX_PAYLOAD_SIZE

\* Frame.decode: the frame, or NoFrame for None.
decode(bytes) ==
  LET content_start == find_frame_start(bytes)
      data == SubSeq(bytes, content_start + 1, Len(bytes))
      unstuffed == byte_unstuff(data)
      length == Unpack16(unstuffed, 3)
      frame_data == SubSeq(unstuffed, 1, 5 + length + 2)
      corrected1 == try_correct_1bit(frame_data, 5 + length)
      corrected2 == try_correct_2bit(frame_data, 5 + length)
      accepted ==
        IF crc_matches(unstuffed, 5 + length) THEN frame_data
        ELSE IF corrected1 # <<>> THEN corrected1
        ELSE corrected2
  IN  IF content_start < 0 THEN NoFrame
      ELSE IF Len(data) < 7 THEN NoFrame
      ELSE IF Len(unstuffed) < 7 THEN NoFrame
      ELSE IF too_long(length) THEN NoFrame
      ELSE IF Len(unstuffed) < 5 + length + 2 THEN NoFrame
      ELSE IF accepted = <<>> THEN NoFrame
      ELSE IF accepted[1] \notin valid_types THEN NoFrame
      ELSE NewFrame(TypeOf(accepted[1]), Unpack16(accepted, 1),
                    SubSeq(accepted, 6, 5 + length))

\* ------------------------------------------------- the codec on its own
\* One side builds frames and puts their encoding on the line, the other
\* decodes what arrives.  ep[e] holds what each side did, chan["B"] the byte
\* strings in flight.

CodecBytes == {93, ESCAPE_BYTE, FLAG_BYTE}
CodecSeqs == {-1, 0, 1, SeqMod - 2, SeqMod - 1, SeqMod}
CodecData(n) == UNION {[1..k -> CodecBytes] : k \in 0..n}

\* A payload of n bytes with flag and escape bytes in it.
LongPayload(n) ==
  [i \in 1..n |-> CASE i % 4 = 1 -> FLAG_BYTE [] i % 4 = 2 -> ESCAPE_BYTE
                    [] OTHER -> i]

Payloads ==
  CodecData(MaxDataLen)
    \cup {LongPayload(MAX_PAYLOAD_SIZE), LongPayload(MAX_PAYLOAD_SIZE + 1)}

CodecEndpoint ==
  [pc |-> "idle", args |-> <<>>, frame |-> NoFrame, bytes |-> <<>>,
   data |-> <<>>, noise |-> "none"]

InitCodec ==
  /\ ep = [e \in EP |-> CodecEndpoint]
  /\ chan = [e \in EP |-> <<>>]

\* Frame(t, s, p): the constructor call.
Construct(t, s, p) ==
  /\ ep["A"].pc = "idle"
  /\ ep' = [ep EXCEPT !["A"] =
              [@ EXCEPT !.pc = IF NewFrame(t, s, p) = ValueError
                               THEN "failed" ELSE "built",
                        !.args = <<t, s, p>>,
                        !.frame = NewFrame(t, s, p)]]
  /\ UNCHANGED chan

\* frame.encode(), handed to the line.
Encode ==
  /\ ep["A"].pc = "built"
  /\ ep' = [ep EXCEPT !["A"] = [@ EXCEPT !.pc = "sent",
                                         !.bytes = encode(ep["A"].frame)]]
  /\ chan' = [chan EXCEPT !["B"] = Append(@, encode(ep["A"].frame))]

\* Frame.decode(bytes) of what the line delivers.
Decode ==
  /\ chan["B"] # <<>>
  /\ ep' = [ep EXCEPT !["B"] = [@ EXCEPT !.pc = "done",
                                         !.bytes = Head(chan["B"]),
                                         !.frame = decode(Head(chan["B"]))]]
  /\ chan' = [chan EXCEPT !["B"] = Tail(@)]

\* Frame._byte_stuff(b), then Frame._byte_unstuff of the result.
Stuff(b) ==
  /\ ep["A"].pc = "idle"
  /\ ep' = [ep EXCEPT !["A"] = [@ EXCEPT !.pc = "stuffed", !.args = b,
                                         !.bytes = byte_stuff(b)]]
  /\ UNCHANGED chan

Unstuff ==
  /\ ep["A"].pc = "stuffed"
  /\ ep' = [ep EXCEPT !["A"] = [@ EXCEPT !.pc = "unstuffed",
                                         !.data = byte_unstuff(ep["A"].bytes)]]
  /\ UNCHANGED chan

NextCodec ==
  \/ \E t \in FrameType, s \in CodecSeqs, p \in Payloads : Construct(t, s, p)
  \/ Encode
  \/ Decode
  \/ \E b \in Payloads : Stuff(b)
  \/ Unstuff

SpecCodec == InitCodec /\ [][NextCodec]_vars

SameFrame(f, g) ==
  /\ f.frame_type = g.frame_type
  /\ f.sequence = g.sequence
  /\ f.payload = g.payload

Contains(data, byte) == \E i \in 1..Len(data) : data[i] = byte

\* C12: whenever the decoder has decoded the encoding of a frame, what it
\* returned is a frame of the same kind, sequence and payload.
C12_DecodeOfEncodeIsFrame ==
  (ep["B"].pc = "done" /\ ep["A"].pc = "sent")
    => SameFrame(ep["B"].frame, ep["A"].frame)

C12_Witness ==
  /\ ep["B"].pc = "done"
  /\ ep["A"].pc = "sent"
  /\ ep["A"].frame.frame_type = "FIN"
  /\ ep["A"].frame.sequence = SeqMod - 1
  /\ Len(ep["A"].frame.payload) = MAX_PAYLOAD_SIZE
  /\ Contains(ep["A"].frame.payload, FLAG_BYTE)
  /\ Contains(ep["A"].frame.payload, ESCAPE_BYTE)

\* C13: unstuffing a stuffed byte string gives the byte string back, and the
\* stuffed string holds no flag byte and no escape byte that is not followed
\* by 0x5D or 0x5E.
C13_StuffRoundTripAndNoFlag ==
  /\ ep["A"].pc = "unstuffed" => ep["A"].data = ep["A"].args
  /\ ep["A"].pc \in {"stuffed", "unstuffed"} =>
       /\ ~Contains(ep["A"].bytes, FLAG_BYTE)
       /\ \A i \in 1..Len(ep["A"].bytes) :
            ep["A"].bytes[i] = ESCAPE_BYTE =>
              /\ i < Len(ep["A"].bytes)
              /\ ep["A"].bytes[i + 1] \in {93, 94}

C13_Witness ==
  /\ ep["A"].pc = "unstuffed"
  /\ Len(ep["A"].args) = MaxDataLen
  /\ ep["A"].args[1] = FLAG_BYTE
  /\ ep["A"].args[MaxDataLen] = ESCAPE_BYTE

\* C16: a constructor call with a payload longer than MAX_PAYLOAD_SIZE or a
\* sequence outside [0, 0xFFFF] raises and yields no frame; every frame that
\* exists, built or decoded, has a payload of at most MAX_PAYLOAD_SIZE bytes
\* and a sequence in [0, 0xFFFF].
ValidFrame(f) ==
  /\ f.frame_type \in FrameType
  /\ Len(f.payload) <= MAX_PAYLOAD_SIZE
  /\ 0 <= f.sequence /\ f.sequence <= 65535

C16_InvalidFrameIsNotBuilt ==
  /\ ep["A"].pc \in {"failed", "built", "sent"} =>
       IF \/ Len(ep["A"].args[3]) > MAX_PAYLOAD_SIZE
          \/ ep["A"].args[2] < 0
          \/ ep["A"].args[2] > 65535
       THEN ep["A"].pc = "failed" /\ ep["A"].frame = ValueError
       ELSE /\ ep["A"].pc # "failed"
            /\ ep["A"].frame =
                 Frame(ep["A"].args[1], ep["A"].args[2], ep["A"].args[3], 0)
  /\ \A e \in EP :
       ep[e].frame \notin {NoFrame, ValueError} => ValidFrame(ep[e].frame)

C16_Witness ==
  /\ ep["A"].pc = "failed"
  /\ Len(ep["A"].args[3]) = MAX_PAYLOAD_SIZE + 1
  /\ ep["A"].args[2] = SeqMod - 1

\* ------------------------------------------------- bit errors on the line
\* The content+CRC region of an encoded frame: the bytes after preamble and
\* sync, as 0-based bit positions (bit_pos // 8, bit_pos % 8).
RegionStart == Len(PREAMBLE) + Len(SYNC)
RegionBits(bytes) == (RegionStart * 8)..(Len(bytes) * 8 - 1)

\* One bit of the frame in flight is inverted, once.
FlipOne(k) ==
  /\ chan["B"] # <<>>
  /\ ep["A"].noise = "none"
  /\ k \in RegionBits(Head(chan["B"]))
  /\ ep' = [ep EXCEPT !["A"] = [@ EXCEPT !.noise = "bit"]]
  /\ chan' = [chan EXCEPT !["B"] = <<flip(Head(@), k)>> \o Tail(@)]

FlipPayloads == {<<>>, <<65>>, <<FLAG_BYTE, 65>>}
MaxFlipBits == 8 * (RegionStart + 2 * (5 + MaxDataLen + 2))

NextFlip ==
  \/ \E t \in FrameType, s \in EdgeSeqs, p \in FlipPayloads : Construct(t, s, p)
  \/ Encode
  \/ \E k \in 0..MaxFlipBits : FlipOne(k)
  \/ Decode

SpecFlip == InitCodec /\ [][NextFlip]_vars

\* C14, as claimed: when one bit of the content+CRC region of an encoded
\* frame was flipped, decode returns a frame equal to the one encoded.
C14_OneBitErrorIsCorrected ==
  (ep["B"].pc = "done" /\ ep["A"].noise = "bit")
    => SameFrame(ep["B"].frame, ep["A"].frame)

\* ------------------------------------------------- a payload byte inverted
\* The bytes of the stuffed payload on the line, as 0-based byte positions.
PayloadBytes(f) ==
  LET start == RegionStart + Len(byte_stuff(SubSeq(frame_content(f), 1, 5)))
  IN  start..(start + Len(byte_stuff(f.payload)) - 1)

\* encoded[i] ^= 0xFF on one payload byte of the DATA frame in flight, once.
InvertByte(i) ==
  /\ chan["B"] # <<>>
  /\ ep["A"].noise = "none"
  /\ ep["A"].frame.frame_type = "DATA"
  /\ i \in PayloadBytes(ep["A"].frame)
  /\ ep' = [ep EXCEPT !["A"] = [@ EXCEPT !.noise = "byte"]]
  /\ chan' = [chan EXCEPT !["B"] =
                <<[Head(@) EXCEPT ![i + 1] = XorByte[@][255]]>> \o Tail(@)]

LongLen == 19
InvertPayloads ==
  (CodecData(fragment_size) \ {<<>>}) \cup {[i \in 1..LongLen |-> 65]}

NextInvert ==
  \/ \E p \in InvertPayloads : Construct("DATA", 1, p)
  \/ Encode
  \/ \E i \in 0..(RegionStart + 2 * (5 + LongLen)) : InvertByte(i)
  \/ Decode

SpecInvert == InitCodec /\ [][NextInvert]_vars

\* C15, as claimed: when all eight bits of one payload byte of an encoded DATA
\* frame were inverted, decode returns None.
C15_InvertedByteIsRejected ==
  (ep["B"].pc = "done" /\ ep["A"].noise = "byte") => ep["B"].frame = NoFrame

\* ------------------------------------------------- malformed input
\* Byte strings that are no encoded frame: the empty string, a bare sync, a
\* sync and a truncated header, bytes without a sync, a bare preamble, and
\* content+CRC of a frame with neither preamble nor sync.
RawInputs ==
  {<<>>, SYNC, SYNC \o <<1, 0>>, <<0, 0, 0, 0, 0>>, PREAMBLE,
   PREAMBLE \o <<FLAG_BYTE>>, <<1, 0, 0, 0, 0, 93, 187>>}

\* Frame.decode is handed bytes that come from no encoder.
Feed(b) ==
  /\ ep["A"].pc = "idle"
  /\ ep' = [ep EXCEPT !["A"] = [@ EXCEPT !.pc = "fed", !.noise = "raw"]]
  /\ chan' = [chan EXCEPT !["B"] = Append(@, b)]

\* Only the first n bytes of the encoded frame in flight arrive.
Truncate(n) ==
  /\ chan["B"] # <<>>
  /\ ep["A"].noise = "none"
  /\ n < Len(Head(chan["B"]))
  /\ ep' = [ep EXCEPT !["A"] = [@ EXCEPT !.noise = "truncated"]]
  /\ chan' = [chan EXCEPT !["B"] = <<SubSeq(Head(@), 1, n)>> \o Tail(@)]

\* Bytes laid out as encode lays them out, with a CRC that matches, whose
\* length field holds a value above MAX_PAYLOAD_SIZE.
OversizeLengths == {MAX_PAYLOAD_SIZE + 1, 256, SeqMod - 1}
ForgedPayloads == {<<>>, <<65>>, LongPayload(MAX_PAYLOAD_SIZE + 1)}

Forge(t, s, length, p) ==
  /\ ep["A"].pc = "idle"
  /\ ep' = [ep EXCEPT !["A"] = [@ EXCEPT !.pc = "forged", !.noise = "oversize",
                                         !.args = <<t, s, p>>]]
  /\ chan' = [chan EXCEPT !["B"] =
       Append(@, LET content == <<TypeCode[t]>> \o Pack16(s) \o Pack16(length) \o p
                 IN  PREAMBLE \o SYNC
                       \o byte_stuff(content \o Pack16(compute_crc(content))))]

MaxWire == RegionStart + 2 * (5 + MaxDataLen + 2)

NextDecode ==
  \/ \E b \in RawInputs : Feed(b)
  \/ \E t \in FrameType, s \in EdgeSeqs, p \in FlipPayloads : Construct(t, s, p)
  \/ Encode
  \/ \E n \in 0..MaxWire : Truncate(n)
  \/ \E t \in FrameType, s \in EdgeSeqs, length \in OversizeLengths,
        p \in ForgedPayloads : Forge(t, s, length, p)
  \/ Decode

SpecDecode == InitCodec /\ [][NextDecode]_vars

\* The three kinds of input of C17, told from the bytes themselves.
AfterSync(bytes) ==
  byte_unstuff(SubSeq(bytes, find_frame_start(bytes) + 1, Len(bytes)))

NoStart(bytes) == find_frame_start(bytes) < 0

TooShort(bytes) ==
  /\ ~NoStart(bytes)
  /\ \/ Len(AfterSync(bytes)) < 5
     \/ Len(AfterSync(bytes)) < 5 + Unpack16(AfterSync(bytes), 3) + 2

Oversize(bytes) ==
  /\ ~NoStart(bytes)
  /\ Len(AfterSync(bytes)) >= 5
  /\ Unpack16(AfterSync(bytes), 3) > MAX_PAYLOAD_SIZE

\* C17: decode returns None, and does not raise, for input in which no frame
\* start is found, in which fewer than 5+len+2 unstuffed bytes follow the
\* sync, or whose length field is above MAX_PAYLOAD_SIZE; a frame forged with
\* such a length field is one of them.
C17_MalformedInputGivesNone ==
  ep["B"].pc = "done" =>
    /\ (NoStart(ep["B"].bytes) \/ TooShort(ep["B"].bytes)
          \/ Oversize(ep["B"].bytes)) => ep["B"].frame = NoFrame
    /\ ep["A"].noise = "oversize" => ep["B"].frame = NoFrame
    /\ ep["B"].frame # ValueError

C17_Witness ==
  /\ ep["B"].pc = "done"
  /\ ep["A"].noise = "oversize"
  /\ Oversize(ep["B"].bytes)
  /\ ~TooShort(ep["B"].bytes)
  /\ ep["B"].frame = NoFrame

\* ------------------------------------------------- AudioInterface (audio_io.py)
\* ep["A"] is a running, non-loopback AudioInterface with its two threads: the
\* foreground thread (field tx: where it is in transmit) and the input
\* callback thread (field cb: where it is in _input_callback).  chan["A"] is
\* _rx_queue.  Time is counted in ticks; now is time.time().

MaxTime == 4
MaxBlocks == 3
MaxTransmits == 2
\* _echo_guard_time, in ticks.
echo_guard_time == 2

AudioEndpoint ==
  [transmitting |-> FALSE, last_tx_end |-> 0, now |-> echo_guard_time,
   tx |-> "idle", cb |-> "idle", block |-> [n |-> 0, echo |-> FALSE],
   play_end |-> -1, ncalls |-> 0, captured |-> 0]

InitAudio ==
  /\ ep = [e \in EP |-> AudioEndpoint]
  /\ chan = [e \in EP |-> <<>>]

Audio(s) == ep' = [ep EXCEPT !["A"] = s]

Tick ==
  /\ ep["A"].now < echo_guard_time + MaxTime
  /\ Audio([ep["A"] EXCEPT !.now = @ + 1])
  /\ UNCHANGED chan

\* The block the port hands over is an echo of the port's own output if it is
\* captured while the samples are played or less than the guard time after
\* the playing ended.
IsEcho(s) ==
  \/ s.tx = "play"
  \/ s.play_end >= 0 /\ s.now < s.play_end + echo_guard_time

\* The stream invokes _input_callback with a block.
Capture ==
  /\ ep["A"].cb = "idle"
  /\ ep["A"].captured < MaxBlocks
  /\ Audio([ep["A"] EXCEPT !.cb = "check_transmitting",
                           !.captured = @ + 1,
                           !.block = [n |-> ep["A"].captured + 1,
                                      echo |-> IsEcho(ep["A"])]])
  /\ UNCHANGED chan

\* if self._transmitting: return
CheckTransmitting ==
  /\ ep["A"].cb = "check_transmitting"
  /\ Audio([ep["A"] EXCEPT !.cb = IF ep["A"].transmitting THEN "idle"
                                  ELSE "check_guard"])
  /\ UNCHANGED chan

\* if time.time() < self._last_tx_end + self._echo_guard_time: return
CheckGuard ==
  /\ ep["A"].cb = "check_guard"
  /\ Audio([ep["A"] EXCEPT !.cb =
              IF ep["A"].now < ep["A"].last_tx_end + echo_guard_time
              THEN "idle" ELSE "put"])
  /\ UNCHANGED chan

\* self._rx_queue.put(...): the queue takes every block.
Put ==
  /\ ep["A"].cb = "put"
  /\ Audio([ep["A"] EXCEPT !.cb = "idle"])
  /\ chan' = [chan EXCEPT !["A"] = Append(@, ep["A"].block)]

\* transmit(): self._transmitting = True
TransmitCall ==
  /\ ep["A"].tx = "idle"
  /\ ep["A"].ncalls < MaxTransmits
  /\ Audio([ep["A"] EXCEPT !.tx = "clear_start", !.transmitting = TRUE])
  /\ UNCHANGED chan

\* clear_receive_buffer: one get_nowait(); queue.Empty ends the loop.
ClearStep ==
  /\ ep["A"].tx \in {"clear_start", "clear_end"}
  /\ IF chan["A"] # <<>>
     THEN /\ chan' = [chan EXCEPT !["A"] = Tail(@)]
          /\ UNCHANGED ep
     ELSE /\ Audio(IF ep["A"].tx = "clear_start"
                   THEN [ep["A"] EXCEPT !.tx = "play"]
                   ELSE [ep["A"] EXCEPT !.tx = "idle", !.ncalls = @ + 1])
          /\ UNCHANGED chan

\* sd.play(...); sd.wait() returns.
PlayDone ==
  /\ ep["A"].tx = "play"
  /\ Audio([ep["A"] EXCEPT !.tx = "unset", !.play_end = ep["A"].now])
  /\ UNCHANGED chan

\* self._transmitting = False
Unset ==
  /\ ep["A"].tx = "unset"
  /\ Audio([ep["A"] EXCEPT !.tx = "stamp", !.transmitting = FALSE])
  /\ UNCHANGED chan

\* self._last_tx_end = time.time()
Stamp ==
  /\ ep["A"].tx = "stamp"
  /\ Audio([ep["A"] EXCEPT !.tx = "clear_end", !.last_tx_end = ep["A"].now])
  /\ UNCHANGED chan

\* receive(): self._rx_queue.get(...) on the foreground thread.
Get ==
  /\ ep["A"].tx = "idle"
  /\ chan["A"] # <<>>
  /\ chan' = [chan EXCEPT !["A"] = Tail(@)]
  /\ UNCHANGED ep

NextAudio ==
  \/ Tick
  \/ Capture
  \/ CheckTransmitting
  \/ CheckGuard
  \/ Put
  \/ TransmitCall
  \/ ClearStep
  \/ PlayDone
  \/ Unset
  \/ Stamp
  \/ Get

SpecAudio == InitAudio /\ [][NextAudio]_vars

\* C18, as claimed: once transmit() has returned, the input queue holds no
\* block captured while the port was transmitting or within the echo guard
\* interval after the end of the transmission.
C18_NoEchoAfterTransmit ==
  (ep["A"].tx = "idle" /\ ep["A"].ncalls >= 1)
    => \A i \in 1..Len(chan["A"]) : ~chan["A"][i].echo

\* C19, as claimed: the input queue never holds more than a fixed number of
\* blocks, and a block put on a full queue displaces the oldest one.
QueueCapacity == 2

C19_QueueIsBounded ==
  [][/\ Len(chan'["A"]) <= QueueCapacity
     /\ (ep["A"].cb = "put" /\ ep'["A"].cb = "idle"
           /\ Len(chan["A"]) = QueueCapacity)
          => chan'["A"] = Append(Tail(chan["A"]), ep["A"].block)]_vars

\* ------------------------------------------------- receive with nothing arriving
\* Both ReliableTransports send and receive, and frames may be lost.  The
\* wait of send takes any frame, so the framer's queue stays empty.
NextDuplex ==
  \/ /\ Within(MaxCalls)
     /\ \E e \in EP : \/ \E data \in Messages : TransportSend(e, data)
                      \/ TransportReceive(e)
  \/ \E e \in EP : WaitReceive(e) \/ Receive(e) \/ Timeout(e) \/ Drop(e)

SpecDuplex == Init /\ [][NextDuplex]_vars

\* C20: a receive call of the transport that returned without a frame having
\* arrived returned None, transmitted nothing, and left tx_seq, rx_seq and
\* stats as they were when it was called.
C20_QuietReceiveChangesNothing ==
  \A e \in EP :
    (Returned(ep[e], "receive") /\ ep[e].ret.via = "transport"
       /\ ep[e].taken = 0) =>
      /\ ~ep[e].ret.ok /\ ep[e].ret.data = <<>>
      /\ ep[e].sent = <<>> /\ ep[e].ntx = 0
      /\ ep[e].tx_seq = ep[e].at.tx_seq
      /\ ep[e].rx_seq = ep[e].at.rx_seq
      /\ ep[e].stats = ep[e].at.stats

C20_Witness ==
  \E e \in EP :
    /\ Returned(ep[e], "receive") /\ ep[e].ret.via = "transport"
    /\ ep[e].taken = 0
    /\ ep[e].tx_seq + ep[e].rx_seq > 0
    /\ ep[e].stats # TransportStats

\* ------------------------------------------------- the first ACK is lost
\* The messages that fit one DATA frame.
SingleFragment == {d \in DataSet : Len(fragment(d)) = 1 /\ Len(d) <= fragment_size}

\* The deadline of a blocked call passes only while no frame is on the air:
\* the peer reads what is sent to it well within the timeout.
SilentTimeout(e) == chan["A"] = <<>> /\ chan["B"] = <<>> /\ Timeout(e)

\* The channel loses the first ACK B transmits: the one for the first
\* transmission of the fragment of A's first send.
LoseFirstAck ==
  /\ ep["A"].lost = 0
  /\ ep["A"].ncalls = 1 /\ ep["A"].pc = "send" /\ ep["A"].attempt = 0
  /\ chan["A"] # <<>> /\ Head(chan["A"]).frame_type = "ACK"
  /\ ep' = [ep EXCEPT !["A"].lost = 1]
  /\ chan' = [chan EXCEPT !["A"] = Tail(@)]

\* A sends single-fragment messages, B keeps calling receive, and at most the
\* first ACK is lost.
NextAckLoss ==
  \/ /\ Within(MaxCalls + 2)
     /\ \/ \E data \in SingleFragment : TransportSend("A", data)
        \/ TransportReceive("B")
  \/ WaitReceive("A")
  \/ Receive("B")
  \/ \E e \in EP : SilentTimeout(e)
  \/ LoseFirstAck

SpecAckLoss == Init /\ [][NextAckLoss]_vars

\* C21: when the channel loses the first ACK and nothing else, and B keeps
\* calling receive, A's send of a single-fragment message returns True with
\* stats.retransmissions = 1 and stats.ack_received = 1, and B has re-ACKed
\* the retransmitted DATA frame as a duplicate without returning it again.
C21_LostAckIsRepeated ==
  (ep["A"].lost = 1 /\ ep["A"].ncalls = 1 /\ Returned(ep["A"], "send")) =>
    /\ ep["A"].ret.ok
    /\ ep["A"].stats.retransmissions = 1
    /\ ep["A"].stats.ack_received = 1
    /\ ep["A"].stats.frames_sent = 2
    /\ ep["B"].stats.frames_received = 2
    /\ Len(ep["B"].delivered) = 1

C21_Witness ==
  /\ ep["A"].lost = 1 /\ ep["A"].ncalls = 1 /\ Returned(ep["A"], "send")
  /\ ep["A"].ret.ok
  /\ ep["A"].stats.timeouts = 1

\* ------------------------------------------------- pkt-line (http/pktline.py)
\* Lines in a list given to encode_lines.
MaxLines == 2
\* encode_line: the largest length, prefix included, that is encoded.
MAX_PKT_LENGTH == 65535

\* The None that decode_line returns for a special packet, and a raised
\* ValueError; neither is a byte string.
NoLine == <<0 - 1>>
PktError == <<0 - 2>>

FLUSH_PKT == <<48, 48, 48, 48>>

\* One digit of format(length, '04x'): 0-9, a-f.
hex_char(n) == IF n < 10 THEN 48 + n ELSE 87 + n

\* f'{length:04x}'.encode(): at least four lower-case hex digits.
RECURSIVE hex_digits(_)
hex_digits(n) ==
  IF n < 16 THEN <<hex_char(n)>> ELSE Append(hex_digits(n \div 16), hex_char(n % 16))

format_04x_mutant(length) ==
  <<hex_char(length % 16), hex_char((length \div 16) % 16),
    hex_char((length \div 256) % 16), hex_char((length \div 4096) % 16)>>

format_04x(length) ==
  LET h == hex_digits(length)
  IN [i \in 1..(4 - Len(h)) |-> 48] \o h

\* The value of one byte as a hex digit for int(x, 16), -1 if it is none.
digit_value(b) ==
  CASE b \in 48..57 -> b - 48
    [] b \in 97..102 -> b - 87
    [] b \in 65..70 -> b - 55
    [] OTHER -> 0 - 1

whitespace == {9, 10, 11, 12, 13, 32}

RECURSIVE lstrip(_)
lstrip(s) == IF s # <<>> /\ Head(s) \in whitespace THEN lstrip(Tail(s)) ELSE s

RECURSIVE rstrip(_)
rstrip(s) ==
  IF s # <<>> /\ s[Len(s)] \in whitespace THEN rstrip(SubSeq(s, 1, Len(s) - 1))
  ELSE s

\* The digits of an int() literal: hex digits, single underscores between.
digits_ok(s) ==
  /\ s # <<>>
  /\ \A i \in 1..Len(s) :
       \/ digit_value(s[i]) >= 0
       \/ /\ s[i] = 95 /\ 1 < i /\ i < Len(s)
          /\ digit_value(s[i - 1]) >= 0 /\ digit_value(s[i + 1]) >= 0

RECURSIVE digits_value(_, _)
digits_value(s, acc) ==
  IF s = <<>> THEN acc
  ELSE IF Head(s) = 95 THEN digits_value(Tail(s), acc)
  ELSE digits_value(Tail(s), 16 * acc + digit_value(Head(s)))

\* int(data, 16), the digits: ok is FALSE for the ValueError.
parse_digits(s) ==
  IF digits_ok(s) THEN [ok |-> TRUE, value |-> digits_value(s, 0)]
  ELSE [ok |-> FALSE, value |-> 0]

\* int(data, 16), an optional 0x prefix, which an underscore may follow.
parse_prefix(s) ==
  IF Len(s) >= 2 /\ s[1] = 48 /\ s[2] \in {88, 120}
  THEN IF Len(s) >= 3 /\ s[3] = 95 THEN parse_digits(SubSeq(s, 4, Len(s)))
       ELSE parse_digits(SubSeq(s, 3, Len(s)))
  ELSE parse_digits(s)

negate(r) == [ok |-> r.ok, value |-> 0 - r.value]

\* int(data, 16), an optional sign.
parse_sign(s) ==
  IF s # <<>> /\ Head(s) = 45 THEN negate(parse_prefix(Tail(s)))
  ELSE IF s # <<>> /\ Head(s) = 43 THEN parse_prefix(Tail(s))
  ELSE parse_prefix(s)

\* int(data, 16) of a byte string: surrounding whitespace, a sign, a 0x
\* prefix and underscores between digits are accepted.
int16(data) == parse_sign(rstrip(lstrip(data)))

\* PktLine.encode_line
encode_line(data) ==
  LET length == Len(data) + 4
  IN IF length > MAX_PKT_LENGTH THEN PktError
     ELSE format_04x(length) \o data

\* PktLine.encode_lines, its loop from line k on.
RECURSIVE encode_lines_from(_, _, _)

encode_lines_append(lines, k, result, encoded) ==
  IF encoded = PktError THEN PktError
  ELSE encode_lines_from(lines, k + 1, result \o encoded)

encode_lines_from(lines, k, result) ==
  IF k > Len(lines) THEN result
  ELSE encode_lines_append(lines, k, result, encode_line(lines[k]))

encode_lines_flush(result, flush) ==
  IF result = PktError THEN PktError
  ELSE IF flush THEN result \o FLUSH_PKT
  ELSE result

\* PktLine.encode_lines
encode_lines(lines, flush) ==
  encode_lines_flush(encode_lines_from(lines, 1, <<>>), flush)

Raised == [line |-> PktError, remaining |-> <<>>]

\* PktLine.decode_line, after the length was parsed.
decode_line_parsed(data, parsed) ==
  IF ~parsed.ok THEN Raised
  ELSE IF parsed.value \in {0, 1, 2}
  THEN [line |-> NoLine, remaining |-> SubSeq(data, 5, Len(data))]
  ELSE IF parsed.value < 4 THEN Raised
  ELSE IF Len(data) < parsed.value THEN Raised
  ELSE [line |-> SubSeq(data, 5, parsed.value),
        remaining |-> SubSeq(data, parsed.value + 1, Len(data))]

\* PktLine.decode_line
decode_line(data) ==
  IF Len(data) < 4 THEN Raised
  ELSE decode_line_parsed(data, int16(SubSeq(data, 1, 4)))

\* PktLine.decode_lines, run to its end: what it yielded, and whether it
\* ended by raising ValueError.
RECURSIVE decode_lines_from(_, _)

decode_lines_yield(r, yielded) ==
  IF r = Raised THEN [yielded |-> yielded, raised |-> TRUE]
  ELSE decode_lines_from(r.remaining, Append(yielded, r.line))

decode_lines_from(data, yielded) ==
  IF data = <<>> \/ Len(data) < 4 THEN [yielded |-> yielded, raised |-> FALSE]
  ELSE decode_lines_yield(decode_line(data), yielded)

decode_lines(data) == decode_lines_from(data, <<>>)

is_line(line) == line # NoLine

\* PktLine.decode_all, on what decode_lines gave.
skip_special(r) ==
  [lines |-> SelectSeq(r.yielded, is_line), raised |-> r.raised]

\* PktLine.decode_all
decode_all(data) == skip_special(decode_lines(data))

\* Payloads: empty, one byte, a newline, text that reads as a flush packet or
\* as a length prefix, and runs of n bytes whose lengths carry into each hex
\* digit, up to the longest that is encoded and one byte more.
ShortLines == {<<>>, <<97>>, <<10>>, FLUSH_PKT, <<48, 48, 48, 53, 97>>}

LongLine(n) == [i \in 1..n |-> 97 + (i % 3)]

LongLines ==
  {LongLine(n) : n \in {6, 12, 252, 4092, MAX_PKT_LENGTH - 4, MAX_PKT_LENGTH - 3}}

LineLists ==
  UNION {[1..k -> ShortLines] : k \in 0..MaxLines}
    \cup {<<l>> : l \in LongLines}
    \cup {<<s, l>> : s \in ShortLines, l \in {LongLine(12), LongLine(252)}}

Rests == {<<>>, <<48>>, FLUSH_PKT, <<48, 48, 48, 53, 97>>, <<122, 122, 122, 122, 122>>}

PktEndpoint ==
  [pc |-> "idle", lines |-> <<>>, flush |-> FALSE, bytes |-> <<>>,
   rest |-> <<>>, yielded |-> <<>>, raised |-> FALSE,
   line |-> <<>>, remaining |-> <<>>]

InitPkt ==
  /\ ep = [e \in EP |-> PktEndpoint]
  /\ chan = [e \in EP |-> <<>>]

\* The caller's record of a call: what was encoded (followed by rest), or
\* that ValueError was raised.
Encoded(s, pc, bytes, rest) ==
  IF bytes = PktError THEN [s EXCEPT !.pc = "failed", !.bytes = PktError]
  ELSE [s EXCEPT !.pc = pc, !.bytes = bytes \o rest]

Decoded(s, pc, r) == [s EXCEPT !.pc = pc, !.yielded = r.yielded, !.raised = r.raised]

DecodedAll(s, r) ==
  [s EXCEPT !.pc = "decoded_all", !.yielded = r.lines, !.raised = r.raised]

Split(s, r) ==
  [s EXCEPT !.pc = "split", !.raised = (r = Raised), !.line = r.line,
            !.remaining = r.remaining]

\* PktLine.encode_lines(lines, flush)
EncodeLines(lines, flush) ==
  /\ ep["A"].pc = "idle"
  /\ ep' = [ep EXCEPT !["A"] =
              Encoded([@ EXCEPT !.lines = lines, !.flush = flush], "encoded",
                      encode_lines(lines, flush), <<>>)]
  /\ UNCHANGED chan

\* list(PktLine.decode_lines(bytes))
DecodeLines ==
  /\ ep["A"].pc = "encoded"
  /\ ep' = [ep EXCEPT !["A"] =
              Decoded(@, "decoded", decode_lines(ep["A"].bytes))]
  /\ UNCHANGED chan

\* PktLine.decode_all(bytes)
DecodeAll ==
  /\ ep["A"].pc = "encoded"
  /\ ep' = [ep EXCEPT !["A"] =
              DecodedAll(@, decode_all(ep["A"].bytes))]
  /\ UNCHANGED chan

\* PktLine.encode_line(d), with rest behind it.
EncodeLine(d, rest) ==
  /\ ep["A"].pc = "idle"
  /\ ep' = [ep EXCEPT !["A"] =
              Encoded([@ EXCEPT !.lines = <<d>>, !.rest = rest], "line",
                      encode_line(d), rest)]
  /\ UNCHANGED chan

\* PktLine.decode_line(bytes)
DecodeLine ==
  /\ ep["A"].pc = "line"
  /\ ep' = [ep EXCEPT !["A"] =
              Split(@, decode_line(ep["A"].bytes))]
  /\ UNCHANGED chan

NextPkt ==
  \/ \E lines \in LineLists, flush \in BOOLEAN : EncodeLines(lines, flush)
  \/ DecodeLines
  \/ DecodeAll
  \/ \E d \in ShortLines \cup LongLines, rest \in Rests : EncodeLine(d, rest)
  \/ DecodeLine

SpecPkt == InitPkt /\ [][NextPkt]_vars

\* C22: for lines of at most 65531 bytes each, decode_lines of
\* encode_lines(lines, flush) yields the lines in order, followed by None
\* when the flush packet was appended; decode_all of it returns the lines;
\* and decode_line of encode_line(d) followed by any rest returns (d, rest).
\* No ValueError is raised on the way.
C22_PktLineRoundTrip ==
  LET s == ep["A"]
  IN /\ s.pc = "decoded" =>
          /\ ~s.raised
          /\ s.yielded = s.lines \o (IF s.flush THEN <<NoLine>> ELSE <<>>)
     /\ s.pc = "decoded_all" => ~s.raised /\ s.yielded = s.lines
     /\ s.pc = "split" =>
          ~s.raised /\ s.line = s.lines[1] /\ s.remaining = s.rest
     /\ s.pc = "failed" =>
          \E i \in 1..Len(s.lines) : Len(s.lines[i]) > MAX_PKT_LENGTH - 4

C22_Witness ==
  LET s == ep["A"]
  IN /\ s.pc = "decoded"
     /\ s.flush
     /\ s.lines = <<FLUSH_PKT, <<>>>>
     /\ s.yielded = <<FLUSH_PKT, <<>>, NoLine>>

\* ------------------------------------------------- responses to a waiting sender
\* A step in which endpoint e, blocked in _send_fragment's wait, is handed a
\* frame of type t from the air (or the frame is lost on the way).
SenderGets(e, t) ==
  /\ ep[e].pc = "send"
  /\ ep[e].rx_queue = <<>>
  /\ chan[e] # <<>>
  /\ Head(chan[e]).frame_type = t
  /\ chan'[e] = Tail(chan[e])

\* Endpoint e goes on waiting for the same transmission of the same frame.
StillWaiting(e) ==
  /\ ep'[e].pc = "send"
  /\ ep'[e].frame = ep[e].frame
  /\ ep'[e].attempt = ep[e].attempt
  /\ ep'[e].ntx = ep[e].ntx
  /\ ep'[e].sent = ep[e].sent
  /\ ep'[e].stats.frames_sent = ep[e].stats.frames_sent
  /\ ep'[e].stats.retransmissions = ep[e].stats.retransmissions

\* C23: while A awaits the ACK for sequence s, an ACK with another sequence
\* number changes nothing: nothing is retransmitted, no attempt is used up,
\* and A goes on waiting.
C23_WrongAckIsIgnored ==
  [][(SenderGets("A", "ACK")
        /\ Head(chan["A"]).sequence # ep["A"].frame.sequence)
       => StillWaiting("A")]_vars

\* C24: when A, awaiting an ACK, is handed a NAK, nak_received goes up by one
\* and no timeout is counted; if an attempt is left the same DATA frame is
\* transmitted again in that step, counted as a retransmission and as the
\* next attempt; if none is left send returns False without transmitting.
C24_NakRetransmitsAtOnce ==
  [][(SenderGets("A", "NAK") /\ ep'["A"] # ep["A"]) =>
       /\ ep'["A"].stats.nak_received = ep["A"].stats.nak_received + 1
       /\ ep'["A"].stats.timeouts = ep["A"].stats.timeouts
       /\ ep'["A"].tx_seq = ep["A"].tx_seq
       /\ IF ep["A"].attempt < retries
          THEN /\ ep'["A"].pc = "send"
               /\ ep'["A"].frame = ep["A"].frame
               /\ ep'["A"].attempt = ep["A"].attempt + 1
               /\ ep'["A"].sent = Append(ep["A"].sent, ep["A"].frame)
               /\ chan'["B"] = Append(chan["B"], ep["A"].frame)
               /\ ep'["A"].stats.retransmissions =
                    ep["A"].stats.retransmissions + 1
               /\ ep'["A"].stats.frames_sent = ep["A"].stats.frames_sent + 1
          ELSE /\ Returned(ep'["A"], "send") /\ ~ep'["A"].ret.ok
               /\ ep'["A"].sent = ep["A"].sent
               /\ chan'["B"] = chan["B"]]_vars

\* A has retransmitted in a send call in which no wait has expired: on a NAK.
C24_Witness ==
  /\ ep["A"].pc = "send"
  /\ ep["A"].attempt = 1
  /\ ep["A"].stats.nak_received = ep["A"].at.stats.nak_received + 1
  /\ ep["A"].stats.timeouts = ep["A"].at.stats.timeouts
  /\ ep["A"].stats.retransmissions = ep["A"].at.stats.retransmissions + 1
  /\ ep["A"].sent = <<ep["A"].frame, ep["A"].frame>>

\* C25: when A, awaiting an ACK, is handed an RST, send returns False in that
\* step, whatever attempts and fragments are left: nothing is transmitted,
\* no further fragment is started, and no counter of the stats moves.
C25_RstEndsSend ==
  [][(SenderGets("A", "RST") /\ ep'["A"] # ep["A"]) =>
       /\ Returned(ep'["A"], "send") /\ ~ep'["A"].ret.ok
       /\ ep'["A"].sent = ep["A"].sent
       /\ chan'["B"] = chan["B"]
       /\ ep'["A"].tx_seq = ep["A"].tx_seq
       /\ ep'["A"].handed = ep["A"].handed
       /\ ep'["A"].stats = ep["A"].stats]_vars

\* send has returned False after one transmission of the first of two
\* fragments, with no wait expired and no NAK: on an RST, with a retry and a
\* fragment left.
C25_Witness ==
  /\ Returned(ep["A"], "send") /\ ~ep["A"].ret.ok
  /\ Len(fragment(ep["A"].arg)) = 2
  /\ ep["A"].tx_seq = ep["A"].at.tx_seq + 1
  /\ Len(ep["A"].sent) = 1
  /\ ep["A"].stats.timeouts = ep["A"].at.stats.timeouts
  /\ ep["A"].stats.nak_received = ep["A"].at.stats.nak_received

\* ------------------------------------------------- the receiving transport
\* A sends, closes its transport or resets its session, so that DATA, FIN and
\* RST frames reach B; B calls receive or resets its transport.
RxCalls ==
  \/ \E data \in Messages : TransportSend("A", data)
  \/ TransportClose("A")
  \/ SessionReset("A")
  \/ TransportReceive("B")
  \/ TransportReset("B")

RxSteps ==
  \/ ScanHit("A")
  \/ Spin("A")
  \/ WaitReceive("A")
  \/ Receive("B")
  \/ \E e \in EP : Timeout(e) \/ Drop(e)

NextRx == (Within(MaxCalls + 1) /\ RxCalls) \/ RxSteps

SpecRx == Init /\ [][NextRx]_vars

\* The same from the state after 0xFFFF fragments have gone from A to B
\* without loss: A's tx_seq and B's rx_seq stand one short of the wrap.
InitRxWrap ==
  /\ ep = [e \in EP |->
             IF e = "A" THEN [NewEndpoint EXCEPT !.tx_seq = SeqMod - 1]
             ELSE [NewEndpoint EXCEPT !.rx_seq = SeqMod - 1]]
  /\ chan = [e \in EP |-> <<>>]

\* A does not close here: its waits take any frame, so that its framer's
\* queue stays empty.
NextRxWrap ==
  \/ /\ Within(MaxCalls)
     /\ \/ \E data \in Messages : TransportSend("A", data)
        \/ SessionReset("A")
        \/ TransportReceive("B")
        \/ TransportReset("B")
  \/ WaitReceive("A")
  \/ Receive("B")
  \/ \E e \in EP : Timeout(e) \/ Drop(e)

SpecRxWrap == InitRxWrap /\ [][NextRxWrap]_vars

\* In this step the receive call of e reads a frame of type t from the air.
Reads(e, t) ==
  /\ ep[e].pc = "receive"
  /\ ep[e].rx_queue = <<>>
  /\ chan[e] # <<>>
  /\ Head(chan[e]).frame_type = t
  /\ chan'[e] = Tail(chan[e])
  /\ ep'[e] # ep[e]

\* In this step e transmits exactly the frames tx.
Transmits(e, tx) ==
  /\ ep'[e].sent = ep[e].sent \o tx
  /\ chan'[Peer(e)] = chan[Peer(e)] \o tx

\* In this step reset() of the transport of e runs.
Resets(e) ==
  /\ ep[e].pc = "idle"
  /\ ep'[e].ncalls = ep[e].ncalls + 1
  /\ ep'[e].ret.op = "reset"

\* C26: when receive reads a DATA frame whose sequence number is rx_seq, it
\* sets rx_seq to (rx_seq + 1) mod 2^16, transmits one ACK with the frame's
\* sequence number and returns the frame's payload; and rx_seq changes in no
\* other step, except to 0 in reset().
C26_AcceptAdvancesRxSeq ==
  [][\A e \in EP :
       /\ (Reads(e, "DATA") /\ Head(chan[e]).sequence = ep[e].rx_seq) =>
            /\ ep'[e].rx_seq = (ep[e].rx_seq + 1) % SeqMod
            /\ Transmits(e, <<create_ack(Head(chan[e]).sequence)>>)
            /\ Returned(ep'[e], "receive")
            /\ ep'[e].ret.ok
            /\ ep'[e].ret.data = Head(chan[e]).payload
       /\ ep'[e].rx_seq # ep[e].rx_seq =>
            \/ Reads(e, "DATA") /\ Head(chan[e]).sequence = ep[e].rx_seq
            \/ Resets(e) /\ ep'[e].rx_seq = 0]_vars

\* B has accepted the frame with sequence number 0xFFFF: rx_seq has wrapped.
C26_Witness ==
  /\ Returned(ep["B"], "receive") /\ ep["B"].ret.ok
  /\ ep["B"].at.rx_seq = SeqMod - 1
  /\ ep["B"].rx_seq = 0
  /\ ep["B"].sent = <<create_ack(SeqMod - 1)>>

\* The sequence numbers of the DATA frames the receive calls of s accepted.
AcceptedSeqs(s) == {s.delivered[i].sequence : i \in 1..Len(s.delivered)}

\* C27: when receive reads a DATA frame whose sequence number is neither
\* rx_seq nor that of a frame it has accepted, it transmits one NAK carrying
\* rx_seq, returns nothing, leaves rx_seq as it is and goes on waiting.
C27_OutOfOrderIsNaked ==
  [][\A e \in EP :
       (/\ Reads(e, "DATA")
        /\ Head(chan[e]).sequence # ep[e].rx_seq
        /\ Head(chan[e]).sequence \notin AcceptedSeqs(ep[e])) =>
         /\ Transmits(e, <<create_nak(ep[e].rx_seq)>>)
         /\ ep'[e].rx_seq = ep[e].rx_seq
         /\ ep'[e].pc = "receive"
         /\ ep'[e].ret = NoRet
         /\ ep'[e].delivered = ep[e].delivered]_vars

\* B, having accepted a frame before, has answered a frame that is ahead of
\* its rx_seq with a NAK and is still in receive.
C27_Witness ==
  /\ ep["B"].pc = "receive"
  /\ ep["B"].rx_seq = 1
  /\ ep["B"].sent = <<create_nak(1)>>
  /\ ep["B"].taken = 1

\* C28: when receive reads a FIN it transmits one ACK carrying the FIN's
\* sequence number and returns None; when it reads an RST it returns None
\* and transmits nothing; rx_seq stays as it is in both.
C28_FinAndRstEndReceive ==
  [][\A e \in EP :
       /\ Reads(e, "FIN") =>
            /\ Transmits(e, <<Frame("ACK", Head(chan[e]).sequence, <<>>, 0)>>)
            /\ Returned(ep'[e], "receive")
            /\ ~ep'[e].ret.ok /\ ep'[e].ret.data = <<>>
            /\ ep'[e].rx_seq = ep[e].rx_seq
       /\ Reads(e, "RST") =>
            /\ Transmits(e, <<>>)
            /\ Returned(ep'[e], "receive")
            /\ ~ep'[e].ret.ok /\ ep'[e].ret.data = <<>>
            /\ ep'[e].rx_seq = ep[e].rx_seq]_vars

\* B, with rx_seq at 1, has returned None from a receive call that took one
\* frame and answered it with ACK(1): the FIN of A's close after one send.
C28_Witness ==
  /\ Returned(ep["B"], "receive")
  /\ ~ep["B"].ret.ok
  /\ ep["B"].taken = 1
  /\ ep["B"].rx_seq = 1
  /\ ep["B"].sent = <<Frame("ACK", 1, <<>>, 0)>>

\* ------------------------------------------------- the handshake, step by step
\* In this step endpoint e makes call op.
MakesCall(e, op) ==
  /\ ep[e].pc = "idle"
  /\ ep'[e].ncalls = ep[e].ncalls + 1
  /\ ep'[e].op = op

\* In this step the wait of e, blocked at pc, returns None: no frame is taken
\* from the air or from the queue.
Expires(e, pc) ==
  /\ ep[e].pc = pc
  /\ chan'[e] = chan[e]
  /\ ep'[e].rx_queue = ep[e].rx_queue
  /\ ep'[e] # ep[e]

\* In this step the wait of e, blocked at pc, returns a frame of type t, from
\* the air or from the queue.
Gets(e, pc, t) ==
  /\ ep[e].pc = pc
  /\ \/ /\ ep[e].rx_queue = <<>> /\ chan[e] # <<>>
        /\ Head(chan[e]).frame_type = t
        /\ chan'[e] = Tail(chan[e])
        /\ ep'[e].rx_queue = <<>>
     \/ /\ chan'[e] = chan[e]
        /\ Len(ep'[e].rx_queue) = Len(ep[e].rx_queue) - 1
        /\ \E i \in 1..Len(ep[e].rx_queue) : ep[e].rx_queue[i].frame_type = t

\* In this step, in which e makes a call, e transmits exactly the frames tx.
CallTransmits(e, tx) ==
  /\ ep'[e].sent = tx
  /\ chan'[Peer(e)] = chan[Peer(e)] \o tx

\* The frames of type t among the frames in q.
OfType(q, t) == SelectSeq(q, LAMBDA f : f.frame_type = t)

\* C29: connect called in state CLOSED transmits a SYN and sets SYN_SENT;
\* each time its wait for SYN_ACK expires it stays in SYN_SENT and transmits
\* SYN again, until handshake_retries SYNs are out, and then it sets CLOSED
\* and returns False.  One connect never transmits more than
\* handshake_retries SYNs, and it transmits its ACK only in a step in which
\* its wait returned a SYN_ACK.
C29_ConnectRetriesThenFails ==
  [][\A e \in EP :
       /\ (MakesCall(e, "connect") /\ ep[e].state = "CLOSED") =>
            /\ CallTransmits(e, <<Frame("SYN", 0, <<>>, 0)>>)
            /\ ep'[e].state = "SYN_SENT"
            /\ ep'[e].pc = "connect"
       /\ Expires(e, "connect") =>
            IF Len(ep[e].sent) < handshake_retries
            THEN /\ Transmits(e, <<Frame("SYN", 0, <<>>, 0)>>)
                 /\ ep'[e].state = "SYN_SENT"
                 /\ ep'[e].pc = "connect"
            ELSE /\ Transmits(e, <<>>)
                 /\ ep'[e].state = "CLOSED"
                 /\ Returned(ep'[e], "connect") /\ ~ep'[e].ret.ok
       /\ ep'[e].op = "connect" =>
            /\ Len(OfType(ep'[e].sent, "SYN")) <= handshake_retries
            /\ Len(OfType(ep'[e].sent, "ACK")) > Len(OfType(ep[e].sent, "ACK"))
                 => Gets(e, "connect", "SYN_ACK")]_vars

\* connect has returned False after handshake_retries SYNs.
C29_Witness ==
  \E e \in EP :
    /\ Returned(ep[e], "connect") /\ ~ep[e].ret.ok
    /\ ep[e].at.state = "CLOSED"
    /\ ep[e].state = "CLOSED"
    /\ ep[e].sent = [i \in 1..handshake_retries |-> Frame("SYN", 0, <<>>, 0)]

\* C30: accept called in state CLOSED transmits nothing while it waits for a
\* SYN; it transmits its SYN_ACK only in a step in which that wait returned a
\* SYN, and is then in SYN_RECEIVED; when the wait for the ACK expires it
\* sets CLOSED and returns False; when the wait for the SYN expires it
\* returns False having transmitted nothing, still CLOSED.
C30_AcceptAnswersSynOnly ==
  [][\A e \in EP :
       /\ (MakesCall(e, "accept") /\ ep[e].state = "CLOSED") =>
            /\ CallTransmits(e, <<>>)
            /\ ep'[e].state = "CLOSED"
            /\ ep'[e].pc = "accept_syn"
       /\ Expires(e, "accept_syn") =>
            /\ Transmits(e, <<>>) /\ ep'[e].sent = <<>>
            /\ ep'[e].state = "CLOSED"
            /\ Returned(ep'[e], "accept") /\ ~ep'[e].ret.ok
       /\ (ep[e].op = "accept" /\ ep[e].pc # "idle"
             /\ ep'[e].sent # ep[e].sent) =>
            /\ Gets(e, "accept_syn", "SYN")
            /\ Transmits(e, <<Frame("SYN_ACK", 0, <<>>, 0)>>)
            /\ ep'[e].sent = <<Frame("SYN_ACK", 0, <<>>, 0)>>
            /\ ep'[e].state = "SYN_RECEIVED"
            /\ ep'[e].pc = "accept_ack"
       /\ Expires(e, "accept_ack") =>
            /\ Transmits(e, <<>>)
            /\ ep'[e].state = "CLOSED"
            /\ Returned(ep'[e], "accept") /\ ~ep'[e].ret.ok]_vars

\* accept has returned False after its SYN_ACK: no ACK came in time.
C30_Witness ==
  \E e \in EP :
    /\ Returned(ep[e], "accept") /\ ~ep[e].ret.ok
    /\ ep[e].at.state = "CLOSED"
    /\ ep[e].state = "CLOSED"
    /\ ep[e].sent = <<Frame("SYN_ACK", 0, <<>>, 0)>>

\* ------------------------------------------------- closing a session
\* A connects, B accepts, A sends and B receives, and either closes its
\* session, over a channel that loses frames.
NextClose ==
  \/ /\ Within(MaxCalls + 1)
     /\ \/ Connect("A")
        \/ Accept("B")
        \/ SessionSend("A", <<66>>)
        \/ SessionReceive("B")
        \/ \E e \in EP : SessionClose(e)
  \/ \E e \in EP : ScanHit(e) \/ Spin(e) \/ WaitReceive(e) \/ Receive(e)
                     \/ Timeout(e) \/ Drop(e)

SpecClose == Init /\ [][NextClose]_vars

\* A wait ends at its deadline at the latest: wait_for_frame returns the
\* match its scan of the queue finds, or None once time.time() has passed the
\* deadline.
FairClose ==
  \A e \in EP : WF_vars(ep[e].pc = "close" /\ (ScanHit(e) \/ Timeout(e)))

SpecCloseFair == SpecClose /\ FairClose

\* C31: Session.close called in state ESTABLISHED sets FIN_WAIT, transmits
\* one FIN carrying tx_seq and advances tx_seq; while it waits it transmits
\* nothing more; it returns, the ACK seen or not, and has then set CLOSED.
\* Called in any other state it transmits nothing and sets CLOSED at once.
C31_CloseEndsClosed ==
  /\ [][\A e \in EP :
          /\ (MakesCall(e, "close") /\ ep[e].state = "ESTABLISHED") =>
               /\ CallTransmits(e, <<Frame("FIN", ep[e].tx_seq, <<>>, 0)>>)
               /\ ep'[e].tx_seq = (ep[e].tx_seq + 1) % SeqMod
               /\ ep'[e].state = "FIN_WAIT"
               /\ ep'[e].pc = "close"
          /\ (MakesCall(e, "close") /\ ep[e].state # "ESTABLISHED") =>
               /\ CallTransmits(e, <<>>)
               /\ ep'[e].tx_seq = ep[e].tx_seq
               /\ ep'[e].state = "CLOSED"
               /\ Returned(ep'[e], "close")
          /\ ep[e].pc = "close" =>
               /\ ep'[e].sent = ep[e].sent
               /\ ep'[e].tx_seq = ep[e].tx_seq
               /\ \/ ep'[e].pc = "close" /\ ep'[e].state = "FIN_WAIT"
                  \/ Returned(ep'[e], "close") /\ ep'[e].state = "CLOSED"]_vars
  /\ \A e \in EP : (ep[e].pc = "close") ~> Returned(ep[e], "close")

\* close has returned after its FIN, sent with sequence number 1, with no
\* frame taken by its wait: the ACK did not come in time.
C31_Witness ==
  \E e \in EP :
    /\ Returned(ep[e], "close")
    /\ ep[e].at.state = "ESTABLISHED"
    /\ ep[e].state = "CLOSED"
    /\ ep[e].sent = <<Frame("FIN", 1, <<>>, 0)>>
    /\ ep[e].tx_seq = 2
    /\ chan[e] = <<>> /\ ep[e].rx_queue = <<>>

\* ------------------------------------------- wait_for_frame on any queue

\* The most frames in the reorder queue when a call is made, and the most
\* frames that have arrived at the modem by then.
MaxQueued == 3
MaxArrived == 2

WaitTypes == {"SYN", "ACK", "DATA"}

TypeSeqs(n) == UNION {[1..k -> WaitTypes] : k \in 0..n}

\* Frames of the types ts; here fid numbers the frames in their order of
\* arrival, the first being base + 1.
Arrived(ts, base) == [i \in 1..Len(ts) |-> Frame(ts[i], 0, <<>>, base + i)]

\* The framer of A holds any queue of frames, received earlier and not yet
\* consumed, and any frames have arrived at its modem behind them.
InitWait ==
  \E q \in TypeSeqs(MaxQueued), c \in TypeSeqs(MaxArrived) :
    /\ ep = [e \in EP |-> IF e = "A"
                          THEN [NewEndpoint EXCEPT !.rx_queue = Arrived(q, 0)]
                          ELSE NewEndpoint]
    /\ chan = [e \in EP |-> IF e = "A" THEN Arrived(c, MaxQueued) ELSE <<>>]

\* wait_for_frame's loop ends at the deadline.  The frames in chan have
\* arrived: modem.receive hands one over before the deadline whenever
\* receive_frame gets as far as calling it, so the deadline passes only when
\* the modem has nothing or receive_frame is served from the queue.
Deadline(e) ==
  /\ ep[e].rx_queue # <<>> \/ chan[e] = <<>>
  /\ Timeout(e)

\* A makes one call that waits: for SYN_ACK, for SYN and then ACK, for any
\* frame, or for the ACK of its FIN.
NextWait ==
  \/ /\ ep["A"].ncalls = 0
     /\ \/ Connect("A")
        \/ Accept("A")
        \/ TransportSend("A", <<66>>)
        \/ TransportClose("A")
  \/ ScanHit("A")
  \/ Spin("A")
  \/ WaitReceive("A")
  \/ Deadline("A")

SpecWait == InitWait /\ [][NextWait]_vars

\* In this step wait_for_frame of e returns: a frame it found in the queue, a
\* frame it read from the modem, or None.
WaitReturns(e) ==
  /\ ep[e].pc \in WaitPcs
  /\ ep'[e] # ep[e]
  /\ \/ QueueMatch(ep[e])
     \/ chan'[e] = chan[e] /\ ep'[e].rx_queue = ep[e].rx_queue
     \/ chan[e] # <<>> /\ chan'[e] = Tail(chan[e]) /\ Matches(ep[e], Head(chan[e]))

InQueue(q, frame) == \E i \in 1..Len(q) : q[i] = frame

InArrivalOrder(q) == \A i, j \in 1..Len(q) : i < j => q[i].fid < q[j].fid

\* C32: wait_for_frame drops no frame and keeps the order of arrival.  In
\* every step of a wait each frame that was queued, and the frame read from
\* the modem if one was read, is queued afterwards unless it matches what is
\* waited for, at most one frame leaves the queue, and when wait_for_frame
\* returns the frames in the queue are in the order in which they arrived.
C32_WaitKeepsQueueOrder ==
  [][\A e \in EP :
       (ep[e].pc \in WaitPcs /\ ep'[e] # ep[e]) =>
         /\ \A i \in 1..Len(ep[e].rx_queue) :
              \/ InQueue(ep'[e].rx_queue, ep[e].rx_queue[i])
              \/ Matches(ep[e], ep[e].rx_queue[i])
         /\ Len(ep'[e].rx_queue) >= Len(ep[e].rx_queue) - 1
         /\ (chan[e] # <<>> /\ chan'[e] = Tail(chan[e])) =>
              \/ InQueue(ep'[e].rx_queue, Head(chan[e]))
              \/ Matches(ep[e], Head(chan[e]))
         /\ WaitReturns(e) => InArrivalOrder(ep'[e].rx_queue)]_vars

\* C33: a frame that matches what the wait of e is for, and that has arrived
\* at the modem before the deadline, is returned: the wait does not return
\* None while such a frame is at the modem, whatever the queue holds.
C33_ArrivedMatchIsReturned ==
  [][\A e \in EP :
       (/\ ep[e].pc \in WaitPcs
        /\ \E i \in 1..Len(chan[e]) : Matches(ep[e], chan[e][i]))
         => ~(/\ ep'[e] # ep[e]
              /\ chan'[e] = chan[e]
              /\ ep'[e].rx_queue = ep[e].rx_queue)]_vars

\* ------------------------------------------------- send and its fragments

\* Data of every length from 0 to one byte more than two full fragments.
FragmentInputs ==
  {[i \in 1..n |-> 65 + (i % 2)] : n \in 0..(2 * fragment_size + 1)}

\* A makes one send, of any of these data and from a tx_seq that may be about
\* to wrap; B calls receive; frames may be lost.
NextFragments ==
  \/ /\ ep["A"].ncalls = 0
     /\ \E data \in FragmentInputs : TransportSend("A", data)
  \/ /\ ep["B"].ncalls < MaxCalls
     /\ TransportReceive("B")
  \/ WaitReceive("A")
  \/ Receive("B")
  \/ \E e \in EP : Timeout(e) \/ Drop(e)

SpecFragments == InitWrap /\ [][NextFragments]_vars

\* The k-th chunk of data, counted from 0.
Chunk(data, k) ==
  SubSeq(data, k * fragment_size + 1, Min((k + 1) * fragment_size, Len(data)))

\* The index of the fragment that the i-th frame transmitted by the send call
\* of s carries, by its sequence number.
FragmentIndex(s, i) == (s.sent[i].sequence - s.at.tx_seq) % SeqMod

\* C34: the frames a send(data) call made at tx_seq = t has transmitted are
\* DATA frames; the first carries fragment 0, each later one the same fragment
\* as the one before it (a retransmission) or the next; fragment k has
\* sequence number (t + k) mod 2^16 and as payload the k-th chunk of
\* fragment_size bytes of data (the last chunk what is left, empty data one
\* empty chunk); tx_seq stands one past the last fragment started and within
\* 0..0xFFFF; and a send that returned True has started every fragment.
C34_FragmentsAndSequence ==
  \A e \in EP :
    /\ ep[e].tx_seq \in 0..(SeqMod - 1)
    /\ (ep[e].op = "send" /\ ep[e].via = "transport") =>
         LET s == ep[e]
             n == NumFragments(Len(s.arg))
         IN /\ \A i \in 1..Len(s.sent) :
                 /\ s.sent[i].frame_type = "DATA"
                 /\ FragmentIndex(s, i) < n
                 /\ s.sent[i].payload = Chunk(s.arg, FragmentIndex(s, i))
                 /\ Len(s.sent[i].payload) <= fragment_size
                 /\ FragmentIndex(s, i) < n - 1 =>
                      Len(s.sent[i].payload) = fragment_size
                 /\ IF i = 1 THEN FragmentIndex(s, i) = 0
                    ELSE FragmentIndex(s, i) - FragmentIndex(s, i - 1) \in {0, 1}
            /\ s.sent # <<>>
            /\ s.tx_seq = (s.at.tx_seq + FragmentIndex(s, Len(s.sent)) + 1) % SeqMod
            /\ (Returned(s, "send") /\ s.ret.ok) =>
                 FragmentIndex(s, Len(s.sent)) = n - 1

\* A send of three fragments from tx_seq = 0xFFFF has returned True after
\* one retransmission.
C34_Witness ==
  /\ Returned(ep["A"], "send") /\ ep["A"].ret.ok
  /\ ep["A"].at.tx_seq = SeqMod - 1
  /\ Len(ep["A"].arg) = 2 * fragment_size + 1
  /\ Len(ep["A"].sent) = 4
  /\ ep["A"].tx_seq = 2

\* ------------------------------------------------ send after a failed send

\* A's first send is running and has not returned.
FirstSend == ep["A"].ncalls = 1 /\ ep["A"].pc = "send"

\* A's first send has returned; it returns only once each of its frames is
\* lost.
AfterFirstSend == ep["A"].ncalls >= 1 /\ ~FirstSend

\* A's first send is made with nobody listening, and every frame of it is
\* lost.  From its return on no frame is lost: B calls receive, and A calls
\* send while B is in receive.
NextRecover ==
  \/ /\ ep["A"].ncalls = 0
     /\ \E data \in Messages : TransportSend("A", data)
  \/ /\ FirstSend
     /\ Drop("B") \/ (chan["B"] = <<>> /\ Timeout("A"))
  \/ /\ AfterFirstSend
     /\ \/ /\ Within(MaxCalls + 2)
           /\ \/ TransportReceive("B")
              \/ \E data \in Messages :
                   Awaited("A", "receive", "receive") /\ TransportSend("A", data)
        \/ WaitReceive("A")
        \/ Receive("B")
        \/ \E e \in EP : QuietTimeout(e)

SpecRecover == Init /\ [][NextRecover]_vars

\* C35: a send made after a send that failed with all its frames lost, over
\* a channel that loses nothing any more and with the peer in receive, returns
\* True, and the peer's receive calls have returned its data.
C35_SendAfterFailedSendSucceeds ==
  (/\ ep["A"].ncalls >= 2
   /\ Returned(ep["A"], "send"))
    => /\ ep["A"].ret.ok
       /\ \E i \in 1..Len(ep["B"].delivered) :
            ep["B"].delivered[i].payload = Head(fragment(ep["A"].arg))

\* ---------------------------------- frames that arrive during a send

\* C36: a DATA or FIN frame that the wait of _send_fragment takes from the
\* modem is not lost: after the step it is in the framer's queue, where a
\* later receive or wait_for_frame finds it.
C36_OtherFramesAreKept ==
  [][\A e \in EP :
       ((SenderGets(e, "DATA") \/ SenderGets(e, "FIN")) /\ ep'[e] # ep[e]) =>
         InQueue(ep'[e].rx_queue, Head(chan[e]))]_vars

\* ------------------------------------------ what decode has accepted

\* Frame.decode, for bytes it returns a frame for: the unstuffed header,
\* payload and CRC bytes it accepted, as received or as corrected.
decode_accepted(bytes) ==
  LET content_start == find_frame_start(bytes)
      data == SubSeq(bytes, content_start + 1, Len(bytes))
      unstuffed == byte_unstuff(data)
      length == Unpack16(unstuffed, 3)
      frame_data == SubSeq(unstuffed, 1, 5 + length + 2)
      corrected1 == try_correct_1bit(frame_data, 5 + length)
  IN  IF crc_matches(unstuffed, 5 + length) THEN frame_data
      ELSE IF corrected1 # <<>> THEN corrected1
      ELSE try_correct_2bit(frame_data, 5 + length)

AcceptSeqs == {0, 26}
AcceptPayloads == {<<>>, <<65, 66>>}

\* Frames are encoded, one bit of the content+CRC region may be inverted on
\* the line, and what arrives is decoded.
NextAccept ==
  \/ \E t \in {"DATA", "ACK"}, s \in AcceptSeqs, p \in AcceptPayloads :
       Construct(t, s, p)
  \/ Encode
  \/ \E k \in 0..MaxFlipBits : FlipOne(k)
  \/ Decode

SpecAccept == InitCodec /\ [][NextAccept]_vars

\* C37: a frame returned by decode is self-consistent: its type is one of the
\* seven frame types, the CRC of the accepted header and payload equals the
\* accepted CRC bytes, and its payload is as long as the length field of the
\* accepted header says.
C37_DecodedFrameIsConsistent ==
  (ep["B"].pc = "done" /\ ep["B"].frame # NoFrame) =>
    /\ ep["B"].frame.frame_type \in FrameType
    /\ crc_matches(decode_accepted(ep["B"].bytes),
                   Len(decode_accepted(ep["B"].bytes)) - 2)
    /\ Len(ep["B"].frame.payload) = Unpack16(decode_accepted(ep["B"].bytes), 3)

\* --------------------------------------------------------------- locks
\* Several threads use one Session, its ReliableTransport and its Modem.
\* Here ep[t] is a thread: the call it runs, the lock events the call has
\* still to make, and the locks it holds; chan[l] is the owner of lock l.

Threads == {"A", "B", "C"}

Locks == {"Session", "ReliableTransport", "Modem"}

\* with self._lock: on entry, and on exit.
Acq(l) == <<[do |-> "acquire", lock |-> l]>>
Rel(l) == <<[do |-> "release", lock |-> l]>>

\* Modem.send and Modem.receive: the whole body runs under Modem._lock.
modem_io == Acq("Modem") \o Rel("Modem")

\* Framer.wait_for_frame and the loop of receive: a frame is found in the
\* queue, or receive_frame calls modem.receive.
frame_wait == {<<>>, modem_io}

\* ReliableTransport.reset under its lock; send and close under theirs, with
\* send_frame and wait_for_frame inside.
transport_locks(inside) ==
  Acq("ReliableTransport") \o inside \o Rel("ReliableTransport")

session_locks(inside) == Acq("Session") \o inside \o Rel("Session")

LockPaths_mutant(op) ==
  {transport_locks(session_locks(modem_io))}

\* The lock events of a call of the Session, one sequence per path through
\* its code (a loop taken once).
LockPaths(op) ==
  CASE op = "connect" ->
         {session_locks(<<>>)}
           \cup {session_locks(modem_io \o w) : w \in frame_wait}
           \cup {session_locks(modem_io \o w \o modem_io \o transport_locks(<<>>)) :
                   w \in frame_wait}
    [] op = "accept" ->
         {session_locks(<<>>)}
           \cup {session_locks(w) : w \in frame_wait}
           \cup {session_locks(w \o modem_io \o v) : w \in frame_wait, v \in frame_wait}
           \cup {session_locks(w \o modem_io \o v \o transport_locks(<<>>)) :
                   w \in frame_wait, v \in frame_wait}
    [] op = "send" ->
         {<<>>} \cup {transport_locks(modem_io \o w) : w \in frame_wait}
    [] op = "receive" ->
         {<<>>} \cup frame_wait \cup {w \o modem_io : w \in frame_wait}
    [] op = "close" ->
         {session_locks(<<>>)}
           \cup {session_locks(transport_locks(modem_io \o w)) : w \in frame_wait}
    [] op = "reset" ->
         {session_locks(modem_io \o transport_locks(<<>>))}

SessionCalls == {"connect", "accept", "send", "receive", "close", "reset"}

InitLocks ==
  /\ ep = [t \in Threads |-> [op |-> "none", script |-> <<>>, held |-> <<>>]]
  /\ chan = [l \in Locks |-> "free"]

\* Thread t makes a call.
LockCall(t, op) ==
  /\ ep[t].script = <<>>
  /\ \E path \in LockPaths(op) :
       ep' = [ep EXCEPT ![t] = [@ EXCEPT !.op = op, !.script = path]]
  /\ UNCHANGED chan

\* threading.Lock.acquire: it blocks while the lock is owned, by whomever.
Acquire(t) ==
  /\ ep[t].script # <<>>
  /\ Head(ep[t].script).do = "acquire"
  /\ chan[Head(ep[t].script).lock] = "free"
  /\ chan' = [chan EXCEPT ![Head(ep[t].script).lock] = t]
  /\ ep' = [ep EXCEPT ![t] = [@ EXCEPT !.script = Tail(@),
                                       !.held = Append(@, Head(ep[t].script).lock)]]

\* threading.Lock.release, at the end of the with block.
Release(t) ==
  /\ ep[t].script # <<>>
  /\ Head(ep[t].script).do = "release"
  /\ chan' = [chan EXCEPT ![Head(ep[t].script).lock] = "free"]
  /\ ep' = [ep EXCEPT ![t] = [@ EXCEPT !.script = Tail(@),
                                       !.held = SubSeq(@, 1, Len(@) - 1)]]

NextLocks ==
  \E t \in Threads :
    \/ \E op \in SessionCalls : LockCall(t, op)
    \/ Acquire(t)
    \/ Release(t)

SpecLocks == InitLocks /\ [][NextLocks]_vars

LockRank == [Session |-> 1, ReliableTransport |-> 2, Modem |-> 3]

\* Thread t can take its next step.
CanStep(t) ==
  /\ ep[t].script # <<>>
  /\ \/ Head(ep[t].script).do = "release"
     \/ chan[Head(ep[t].script).lock] = "free"

\* C38: with several threads calling connect, accept, send, receive, close
\* and reset, a thread that acquires a lock holds only locks that come before
\* it in the order Session, ReliableTransport, Modem; no thread is about to
\* acquire a lock it holds; and whenever some call is unfinished, some thread
\* with an unfinished call can take its next step (no deadlock).
C38_LockOrderNoDeadlock ==
  /\ [][\A t \in Threads : \A l \in Locks :
          (chan[l] # t /\ chan'[l] = t) =>
            \A i \in 1..Len(ep[t].held) : LockRank[ep[t].held[i]] < LockRank[l]]_vars
  /\ [](\A t \in Threads :
          (ep[t].script # <<>> /\ Head(ep[t].script).do = "acquire")
            => chan[Head(ep[t].script).lock] # t)
  /\ []((\E t \in Threads : ep[t].script # <<>>) => \E t \in Threads : CanStep(t))

\* A is in close and holds all three locks, while B waits for the Session
\* lock and C for the Modem lock.
C38_Witness ==
  /\ ep["A"].op = "close"
  /\ ep["A"].held = <<"Session", "ReliableTransport", "Modem">>
  /\ ep["B"].script # <<>> /\ Head(ep["B"].script) = Acq("Session")[1]
  /\ ep["C"].script # <<>> /\ Head(ep["C"].script) = Acq("Modem")[1]
  /\ ep["C"].op = "receive"

\* ------------------------------------ connect and accept when not CLOSED

\* Both endpoints connect and accept, again after a handshake too, and frames
\* may be lost.
NextReconnect ==
  \/ /\ Within(MaxCalls + 1)
     /\ \E e \in EP : Connect(e) \/ Accept(e)
  \/ \E e \in EP : ScanHit(e) \/ Spin(e) \/ WaitReceive(e) \/ Timeout(e) \/ Drop(e)

SpecReconnect == Init /\ [][NextReconnect]_vars

\* C39: connect or accept called in a state other than CLOSED returns False
\* in the step of the call: nothing is transmitted, no frame is taken from
\* the modem or from the queue, and the session state, tx_seq, rx_seq and the
\* statistics are as before.
C39_NotClosedReturnsFalse ==
  [][\A e \in EP :
       ((MakesCall(e, "connect") \/ MakesCall(e, "accept"))
          /\ ep[e].state # "CLOSED") =>
         /\ Returned(ep'[e], ep'[e].op)
         /\ ~ep'[e].ret.ok
         /\ CallTransmits(e, <<>>)
         /\ chan'[e] = chan[e]
         /\ ep'[e].rx_queue = ep[e].rx_queue
         /\ ep'[e].state = ep[e].state
         /\ ep'[e].tx_seq = ep[e].tx_seq
         /\ ep'[e].rx_seq = ep[e].rx_seq
         /\ ep'[e].stats = ep[e].stats]_vars

\* A, ESTABLISHED by its own connect, has called connect again and got False,
\* with a frame still unread at its modem.
C39_Witness ==
  /\ Returned(ep["A"], "connect")
  /\ ~ep["A"].ret.ok
  /\ ep["A"].at.state = "ESTABLISHED"
  /\ ep["A"].state = "ESTABLISHED"
  /\ ep["A"].sent = <<>>
  /\ chan["A"] # <<>>

\* ------------------------------------------------- the session states

\* Both endpoints use every call of the Session that sets its state, and
\* frames may be lost.
NextStates ==
  \/ /\ Within(MaxCalls + 1)
     /\ \E e \in EP : Connect(e) \/ Accept(e) \/ SessionClose(e) \/ SessionReset(e)
  \/ \E e \in EP : ScanHit(e) \/ Spin(e) \/ WaitReceive(e) \/ Timeout(e) \/ Drop(e)

SpecStates == Init /\ [][NextStates]_vars

SessionStates == {"CLOSED", "SYN_SENT", "SYN_RECEIVED", "ESTABLISHED", "FIN_WAIT"}

\* C40: the state of a session is always one of CLOSED, SYN_SENT,
\* SYN_RECEIVED, ESTABLISHED and FIN_WAIT; the members CLOSE_WAIT, LAST_ACK
\* and TIME_WAIT of SessionState are never entered.
C40_SessionStates ==
  \A e \in EP :
    /\ ep[e].state \in SessionStates
    /\ ep[e].state \notin {"CLOSE_WAIT", "LAST_ACK", "TIME_WAIT"}

\* B, ESTABLISHED by its accept, is in FIN_WAIT, and A, ESTABLISHED by its
\* connect, has reset and is in SYN_SENT again.
C40_Witness ==
  /\ ep["B"].state = "FIN_WAIT"
  /\ ep["B"].at.state = "ESTABLISHED"
  /\ ep["A"].state = "SYN_SENT"
  /\ ep["A"].ncalls = 2

====
